---------------------------- MODULE Spec2Model ----------------------------
(***************************************************************************)
(* Model of the VeritasAI domain core: ConfidenceScore, ClassificationType,*)
(* TextProcessor, TextHash, Text, Classification, AnalysisResult and User. *)
(*                                                                         *)
(* Numbers: a confidence is a float in the source.  Here every confidence  *)
(* is an integer count of units of 10^-(ROUND_DIGITS+1), one decimal more  *)
(* than ConfidenceScore keeps, so that the rounding of validate_range is   *)
(* something the model does and not the identity.                          *)
(*                                                                         *)
(* Strings: a str is a sequence of characters, a character is a TLA+       *)
(* string naming one code point ("a", " ", "\t", "SOH", "LDQUO", ...).     *)
(***************************************************************************)
EXTENDS Integers, Sequences, FiniteSets, TLC

VARIABLES
    raw,        \* the float handed to ConfidenceScore(value=...)
    score,      \* the ConfidenceScore built from raw, or the failure to build it
    ctype,      \* the result of ClassificationType.from_confidence(score)
    text,       \* a str handed to TextProcessor
    other,      \* a second str, compared with text
    canon,      \* the results of TextProcessor.normalize on text and on other
    digest,     \* the results of TextProcessor.generate_hash on text and on other
    sim,        \* the result of TextProcessor.similarity_score(text, other)
    out,        \* what the latest call of another operation was and what it gave
    textArgs,   \* the arguments of a call of Text.create
    textObj,    \* what the call gave: the Text, or its failure
    clsArgs,    \* the arguments of a call of Classification(...)
    clsObj,     \* what the call gave: the Classification, or its failure
    resArgs,    \* the arguments of a call of AnalysisResult(...)
    resObj,     \* what the call gave: the AnalysisResult, or its failure
    now,        \* the clock read by datetime.utcnow()
    seen,       \* what the calls of is_expired on the result gave
    perf,       \* what get_performance_score on the result gave
    user,       \* a User, once it is constructed
    ret         \* the latest call on the User and what it returned

\* The variables of the confidence path and those of TextProcessor.
confVars == <<raw, score, ctype>>

procVars == <<text, other, canon, digest, sim, out>>

textVars == <<textArgs, textObj>>

queryVars == <<now, seen, perf, user, ret>>

resultVars == <<clsArgs, clsObj, resArgs, resObj, now, seen, perf, user, ret>>

entityVars == <<textArgs, textObj, clsArgs, clsObj, resArgs, resObj, now, seen, perf,
                user, ret>>

vars == <<raw, score, ctype, text, other, canon, digest, sim, out, textArgs, textObj,
          clsArgs, clsObj, resArgs, resObj, now, seen, perf, user, ret>>

---------------------------------------------------------------------------
(* ConfidenceScore (value_objects/confidence_score.py)                      *)

ROUND_DIGITS == 4

ROUND_SCALE == 10 ^ ROUND_DIGITS

\* Units per 1.0 of every confidence value of the model.
RAW_SCALE == ROUND_SCALE * 10

\* The decimal literal num/den of the source (den a power of ten), in
\* model units.
Frac(num, den) == num * (RAW_SCALE \div den)

\* How far outside [0,1] and how close around a threshold the inputs go.
Over == 3

Window == 6

Abs(n) == IF n < 0 THEN 0 - n ELSE n

Edges == {Frac(0, 1), Frac(2, 10), Frac(4, 10), Frac(6, 10), Frac(8, 10), Frac(1, 1)}

\* The inputs: every multiple of 10^-ROUND_DIGITS in [0,1], every value of
\* one more decimal around the thresholds, and values just outside [0,1].
RawValues ==
    { v \in (0 - Over)..(RAW_SCALE + Over) :
        \/ v % (RAW_SCALE \div ROUND_SCALE) = 0
        \/ \E e \in Edges : Abs(v - e) <= Window }

\* round(v, 4).  Python rounds the binary double correctly; a decimal that
\* ends in 5 at the fifth place is (in general) not a double, the double
\* nearest to it lies just below or just above, so either neighbour can be
\* the result: the set of the results round() can give.
Round4(v) ==
    LET step == RAW_SCALE \div ROUND_SCALE
        lo   == (v \div step) * step
        r    == v % step
    IN  IF 2 * r < step THEN {lo}
        ELSE IF 2 * r > step THEN {lo + step}
        ELSE {lo, lo + step}

\* Field(ge=0.0, le=1.0): checked by pydantic before the field validator.
ValueFieldOk(v) == Frac(0, 1) <= v /\ v <= Frac(1, 1)

\* validate_range cutting the extra decimals off instead of rounding.
validate_range_truncating(v) ==
    IF ~(Frac(0, 1) <= v /\ v <= Frac(1, 1)) THEN {}
    ELSE {(v \div (RAW_SCALE \div ROUND_SCALE)) * (RAW_SCALE \div ROUND_SCALE)}

\* validate_range returning v as it came.
validate_range_unrounded(v) ==
    IF ~(Frac(0, 1) <= v /\ v <= Frac(1, 1)) THEN {} ELSE {v}

\* validate_range: the set of values it can return; {} when it raises.
validate_range(v) ==
    IF ~(Frac(0, 1) <= v /\ v <= Frac(1, 1)) THEN {} ELSE Round4(v)

NoScore == [state |-> "none", value |-> 0]

FailedScore == [state |-> "error", value |-> 0]

ConfIdle ==
    /\ raw = 0
    /\ score = NoScore
    /\ ctype = "NONE"

\* ConfidenceScore(value=raw)
ConfidenceScoreNew ==
    /\ score = NoScore
    /\ IF ValueFieldOk(raw) /\ validate_range(raw) # {}
       THEN \E r \in validate_range(raw) : score' = [state |-> "ok", value |-> r]
       ELSE score' = FailedScore
    /\ UNCHANGED <<raw, ctype>>
    /\ UNCHANGED procVars
    /\ UNCHANGED entityVars

---------------------------------------------------------------------------
(* ClassificationType (entities/classification.py)                          *)

ClassificationTypes == {"RELIABLE", "INCONCLUSIVE", "UNFOUNDED", "FAKE"}

from_confidence_strict(value) ==
    IF value > Frac(8, 10) THEN "RELIABLE"
    ELSE IF value > Frac(4, 10) THEN "INCONCLUSIVE"
    ELSE IF value > Frac(2, 10) THEN "UNFOUNDED"
    ELSE "FAKE"

\* ClassificationType.from_confidence(confidence), on confidence.value
from_confidence(value) ==
    IF value >= Frac(8, 10) THEN "RELIABLE"
    ELSE IF value >= Frac(4, 10) THEN "INCONCLUSIVE"
    ELSE IF value >= Frac(2, 10) THEN "UNFOUNDED"
    ELSE "FAKE"

FromConfidence ==
    /\ score.state = "ok"
    /\ ctype = "NONE"
    /\ ctype' = from_confidence(score.value)
    /\ UNCHANGED <<raw, score>>
    /\ UNCHANGED procVars
    /\ UNCHANGED entityVars

---------------------------------------------------------------------------
(* Characters and the str operations the code uses.                         *)

\* str.isspace / the regex class \s (for the characters of the model).
Spaces == {" ", "\t", "\n", "\r", "NBSP"}

\* [\u0000-\u001F\u007F-\u009F] of CONTROL_CHARS_PATTERN.
ControlChars == {"\t", "\n", "\r", "SOH"}

\* [.,;:!?] of PUNCTUATION_CLEANUP_PATTERN.
TerminalPunctuation == {".", ",", ";", ":", "!", "?"}

UPPER == <<"A", "B", "C", "D", "E", "F", "G", "H", "I", "J", "K", "L", "M",
           "N", "O", "P", "Q", "R", "S", "T", "U", "V", "W", "X", "Y", "Z">>

LOWER == <<"a", "b", "c", "d", "e", "f", "g", "h", "i", "j", "k", "l", "m",
           "n", "o", "p", "q", "r", "s", "t", "u", "v", "w", "x", "y", "z">>

UpperLetters == {UPPER[i] : i \in 1..Len(UPPER)}

LowerLetters == {LOWER[i] : i \in 1..Len(LOWER)}

\* str.lower() of one character.  "A_acute" and "E_acute" are the precomposed
\* capitals U+00C1 and U+00C9, "IOTA_DIALYTIKA" is U+03AA and
\* "iota_dialytika" U+03CA.
LowerChar(c) ==
    IF c \in UpperLetters
    THEN LOWER[CHOOSE i \in 1..Len(UPPER) : UPPER[i] = c]
    ELSE IF c = "A_acute" THEN "a_acute"
    ELSE IF c = "E_acute" THEN "e_acute"
    ELSE IF c = "IOTA_DIALYTIKA" THEN "iota_dialytika"
    ELSE c

\* str.upper() of one character.
UpperChar(c) ==
    IF c \in LowerLetters
    THEN UPPER[CHOOSE i \in 1..Len(LOWER) : LOWER[i] = c]
    ELSE c

\* The sequence of the characters of marked (records [ch, keep]) that are kept.
Kept(marked) ==
    LET IsKept(m) == m.keep
        k == SelectSeq(marked, IsKept)
    IN  [i \in 1..Len(k) |-> k[i].ch]

\* s with every character of class that directly follows a character of
\* class removed: each maximal run of class keeps its first character.
FirstOfRuns(s, class) ==
    Kept([i \in 1..Len(s) |->
            [ch |-> s[i], keep |-> ~(s[i] \in class /\ i > 1 /\ s[i - 1] \in class)]])

\* re.sub(r'\s+', ' ', s)
CollapseWhitespace(s) ==
    FirstOfRuns([i \in 1..Len(s) |-> IF s[i] \in Spaces THEN " " ELSE s[i]], {" "})

\* s.strip()
Strip(s) ==
    IF \A i \in 1..Len(s) : s[i] \in Spaces THEN <<>>
    ELSE LET first == CHOOSE i \in 1..Len(s) :
                          s[i] \notin Spaces /\ \A j \in 1..(i - 1) : s[j] \in Spaces
             last  == CHOOSE i \in 1..Len(s) :
                          s[i] \notin Spaces /\ \A j \in (i + 1)..Len(s) : s[j] \in Spaces
         IN  SubSeq(s, first, last)

\* The letters of the model that have a precomposed form with the combining
\* acute accent U+0301 ("ACUTE"), and that form.  U+03CA with U+0301 is
\* U+0390 ("iota_dialytika_tonos"); the capital U+03AA has no such form.
Composable == {"a", "A", "e", "E", "iota_dialytika"}

Composed(c) ==
    CASE c = "a" -> "a_acute"
      [] c = "A" -> "A_acute"
      [] c = "e" -> "e_acute"
      [] c = "E" -> "E_acute"
      [] c = "iota_dialytika" -> "iota_dialytika_tonos"

\* unicodedata.normalize('NFC', s): a base letter directly followed by a
\* combining mark it composes with becomes the precomposed letter.
NFC(s) ==
    LET Composes(i) == i < Len(s) /\ s[i] \in Composable /\ s[i + 1] = "ACUTE"
    IN  Kept([i \in 1..Len(s) |->
                [ch   |-> IF Composes(i) THEN Composed(s[i]) ELSE s[i],
                 keep |-> ~(i > 1 /\ Composes(i - 1))]])

\* s.lower()
Lower(s) == [i \in 1..Len(s) |-> LowerChar(s[i])]

\* len(s.split())
WordCount(s) ==
    Cardinality({i \in 1..Len(s) :
                    s[i] \notin Spaces /\ (i = 1 \/ s[i - 1] \in Spaces)})

---------------------------------------------------------------------------
(* TextProcessor (utils/text_processor.py)                                  *)

\* QUOTE_NORMALIZATION_PATTERNS: (character class, replacement).  Both
\* classes of the source list the ASCII quote three times.
QUOTE_NORMALIZATION_PATTERNS ==
    << [class |-> {"DQUOTE", "DQUOTE", "DQUOTE"}, replacement |-> "DQUOTE"],
       [class |-> {"SQUOTE", "SQUOTE", "SQUOTE"}, replacement |-> "SQUOTE"] >>

Raised == [raised |-> TRUE, value |-> <<>>]

Returned(v) == [raised |-> FALSE, value |-> v]

\* pattern.sub(replacement, s) for a one-character class
SubClass(s, pattern) ==
    [i \in 1..Len(s) |-> IF s[i] \in pattern.class THEN pattern.replacement ELSE s[i]]

\* Step 1 of normalize: tabs and newlines to spaces, then the other control
\* characters removed.
RemoveControl(s) ==
    LET spaced == [i \in 1..Len(s) |-> IF s[i] \in {"\t", "\n", "\r"} THEN " " ELSE s[i]]
        NotControl(c) == c \notin ControlChars
    IN  SelectSeq(spaced, NotControl)

\* The hashing steps without the lower() call.
HashingSteps_keeping_case(s) ==
    LET cleaned   == FirstOfRuns(s, TerminalPunctuation)
        dquoted   == SubClass(cleaned, QUOTE_NORMALIZATION_PATTERNS[1])
    IN  SubClass(dquoted, QUOTE_NORMALIZATION_PATTERNS[2])

\* Step 5 of normalize, the part under for_hashing.
HashingSteps(s) ==
    LET lowered   == Lower(s)
        cleaned   == FirstOfRuns(lowered, TerminalPunctuation)
        dquoted   == SubClass(cleaned, QUOTE_NORMALIZATION_PATTERNS[1])
    IN  SubClass(dquoted, QUOTE_NORMALIZATION_PATTERNS[2])

\* normalize without its guard against the empty text.
normalize_unguarded(t, for_hashing) ==
    LET trimmed == Strip(NFC(CollapseWhitespace(RemoveControl(t))))
    IN  Returned(IF for_hashing THEN HashingSteps(trimmed) ELSE trimmed)

\* TextProcessor.normalize(text, for_hashing)
normalize(t, for_hashing) ==
    IF t = <<>> THEN Raised
    ELSE LET trimmed == Strip(NFC(CollapseWhitespace(RemoveControl(t))))
         IN  Returned(IF for_hashing THEN HashingSteps(trimmed) ELSE trimmed)

\* hashlib.sha256(s.encode('utf-8')).hexdigest(), taken as collision-free:
\* the digest is identified with its preimage.
Sha256(s) == <<"sha256", s>>

\* generate_hash hashing the display form (for_hashing left at its default).
generate_hash_display(t) ==
    IF t = <<>> THEN Raised
    ELSE LET normalized == normalize(t, FALSE)
         IN  IF normalized.raised THEN Raised ELSE Returned(Sha256(normalized.value))

\* TextProcessor.generate_hash(text)
generate_hash(t) ==
    IF t = <<>> THEN Raised
    ELSE LET normalized == normalize(t, TRUE)
         IN  IF normalized.raised THEN Raised ELSE Returned(Sha256(normalized.value))

\* set(s.split()): the words of s, its longest pieces without whitespace.
WordSet(s) ==
    LET starts == {i \in 1..Len(s) :
                      s[i] \notin Spaces /\ (i = 1 \/ s[i - 1] \in Spaces)}
        EndOf(i) == CHOOSE j \in i..Len(s) :
                      /\ \A k \in i..j : s[k] \notin Spaces
                      /\ (j = Len(s) \/ s[j + 1] \in Spaces)
    IN  {SubSeq(s, i, EndOf(i)) : i \in starts}

\* A similarity is a float in the source; here it is the fraction num / den.
Similarity(num, den) == [num |-> num, den |-> den]

\* similarity_score without the shortcut for equal canonical forms.
similarity_score_no_shortcut(text1, text2) ==
    IF text1 = <<>> \/ text2 = <<>> THEN Similarity(0, 1)
    ELSE LET words1 == WordSet(normalize(text1, TRUE).value)
             words2 == WordSet(normalize(text2, TRUE).value)
         IN  IF words1 = {} \/ words2 = {} THEN Similarity(0, 1)
             ELSE Similarity(Cardinality(words1 \cap words2),
                             Cardinality(words1 \cup words2))

\* TextProcessor.similarity_score(text1, text2)
similarity_score(text1, text2) ==
    IF text1 = <<>> \/ text2 = <<>> THEN Similarity(0, 1)
    ELSE LET norm1  == normalize(text1, TRUE).value
             norm2  == normalize(text2, TRUE).value
             words1 == WordSet(norm1)
             words2 == WordSet(norm2)
             intersection == Cardinality(words1 \cap words2)
             union        == Cardinality(words1 \cup words2)
         IN  IF norm1 = norm2 THEN Similarity(1, 1)
             ELSE IF words1 = {} \/ words2 = {} THEN Similarity(0, 1)
             ELSE IF union > 0 THEN Similarity(intersection, union)
             ELSE Similarity(0, 1)

NotCalled == [called |-> FALSE]

ProcIdle ==
    /\ text = <<>>
    /\ other = <<>>
    /\ canon = NotCalled
    /\ digest = NotCalled
    /\ sim = NotCalled
    /\ out = NotCalled

\* normalize(text, for_hashing) and normalize(other, for_hashing)
Normalize(for_hashing) ==
    /\ ~canon.called
    /\ canon' = [called |-> TRUE, for_hashing |-> for_hashing,
                 a |-> normalize(text, for_hashing),
                 b |-> normalize(other, for_hashing)]
    /\ UNCHANGED <<text, other, digest, sim, out>>
    /\ UNCHANGED confVars
    /\ UNCHANGED entityVars

\* generate_hash(text) and generate_hash(other)
GenerateHash ==
    /\ ~digest.called
    /\ digest' = [called |-> TRUE, a |-> generate_hash(text), b |-> generate_hash(other)]
    /\ UNCHANGED <<text, other, canon, sim, out>>
    /\ UNCHANGED confVars
    /\ UNCHANGED entityVars

\* TextProcessor.similarity_score(text, other)
SimilarityScore ==
    /\ ~sim.called
    /\ sim' = [called |-> TRUE, value |-> similarity_score(text, other)]
    /\ UNCHANGED <<text, other, canon, digest, out>>
    /\ UNCHANGED confVars
    /\ UNCHANGED entityVars

---------------------------------------------------------------------------
(* Optional values, and the str and list inputs built by repetition.        *)

None == [some |-> FALSE]

Some(v) == [some |-> TRUE, v |-> v]

\* c * n
Rep(c, n) == [i \in 1..n |-> c]

\* (base * k)[:n], for a non-empty base
Cycle(base, n) == [i \in 1..n |-> base[((i - 1) % Len(base)) + 1]]

---------------------------------------------------------------------------
(* TextHash (value_objects/text_hash.py)                                    *)

\* TextHash._normalize_text(text)
_normalize_text(t) == NFC(Lower(CollapseWhitespace(Strip(t))))

\* TextHash.from_text(text): the TextHash, a hash of 64 hex digits that
\* validate_hash_format accepts.
from_text(t) ==
    IF t = <<>> THEN Raised ELSE Returned(Sha256(_normalize_text(t)))

---------------------------------------------------------------------------
(* Text (entities/text.py)                                                  *)

TEXT_MIN_LENGTH == 10

TEXT_MAX_LENGTH == 2000

LANGUAGE_MIN_LENGTH == 2

LANGUAGE_MAX_LENGTH == 5

KEYWORDS_MAX_ITEMS == 20

KEYWORD_MIN_LENGTH == 2

SOURCE_URL_MAX_LENGTH == 500

\* unicodedata.category(char)[0] == 'C': the control characters and the
\* format characters.
CategoryC == ControlChars \cup {"ZWSP"}

\* Text._normalize_content(content)
_normalize_content(content) ==
    LET composed == NFC(CollapseWhitespace(Strip(content)))
        Stays(c) == c \notin CategoryC \/ c \in {"\n", "\r", "\t"}
    IN  SelectSeq(composed, Stays)

\* Text.validate_content_length(v): the value it returns, or Raised.
validate_content_length(v) ==
    IF v = <<>> \/ Strip(v) = <<>> THEN Raised
    ELSE IF Len(Strip(v)) < TEXT_MIN_LENGTH THEN Raised
    ELSE IF Len(Strip(v)) > TEXT_MAX_LENGTH THEN Raised
    ELSE Returned(Strip(v))

\* re.match(r'^[a-z]{2}(-[A-Z]{2})?$', v); $ also matches before a final
\* newline.
MatchesLanguageCode(v) ==
    LET w == IF Len(v) > 0 /\ v[Len(v)] = "\n" THEN SubSeq(v, 1, Len(v) - 1) ELSE v
    IN  /\ Len(w) \in {2, 5}
        /\ w[1] \in LowerLetters
        /\ w[2] \in LowerLetters
        /\ Len(w) = 5 => w[3] = "-" /\ w[4] \in UpperLetters /\ w[5] \in UpperLetters

\* Text.validate_language_code(v), v an optional str
validate_language_code(v) ==
    IF ~v.some THEN <<"p", "t">>
    ELSE IF ~MatchesLanguageCode(v.v) THEN <<"p", "t">>
    ELSE Lower(v.v)

\* The entries of v that no earlier entry equals, in their order.
FirstSeen(v) ==
    Kept([i \in 1..Len(v) |->
            [ch |-> v[i], keep |-> \A j \in 1..(i - 1) : v[j] # v[i]]])

\* Text.validate_keywords(v)
validate_keywords(v) ==
    IF v = <<>> THEN <<>>
    ELSE LET clean   == [i \in 1..Len(v) |-> Lower(Strip(v[i]))]
             LongEnough(k) == k # <<>> /\ Len(k) >= KEYWORD_MIN_LENGTH
             cleaned == FirstSeen(SelectSeq(clean, LongEnough))
         IN  SubSeq(cleaned, 1, IF Len(cleaned) < KEYWORDS_MAX_ITEMS
                                THEN Len(cleaned) ELSE KEYWORDS_MAX_ITEMS)

\* keywords: Field(max_items=20), which pydantic checks on the list as it is
\* handed in, before validate_keywords runs.
KeywordsFieldOk(v) == Len(v) <= KEYWORDS_MAX_ITEMS

\* original_content: Field(min_length=10, max_length=2000)
ContentFieldOk(v) == TEXT_MIN_LENGTH <= Len(v) /\ Len(v) <= TEXT_MAX_LENGTH

\* language: Field(min_length=2, max_length=5)
LanguageFieldOk(v) ==
    v.some => LANGUAGE_MIN_LENGTH <= Len(v.v) /\ Len(v.v) <= LANGUAGE_MAX_LENGTH

\* source_url: Field(max_length=500)
SourceUrlFieldOk(v) == v.some => Len(v.v) <= SOURCE_URL_MAX_LENGTH

Failed == [ok |-> FALSE]

\* Text(...): the fields as validated, or Failed when a constraint or a
\* validator rejects one.
TextNew(f) ==
    IF /\ ContentFieldOk(f.original_content)
       /\ ~validate_content_length(f.original_content).raised
       /\ LanguageFieldOk(f.language)
       /\ f.word_count >= 1
       /\ TEXT_MIN_LENGTH <= f.character_count
       /\ f.character_count <= TEXT_MAX_LENGTH
       /\ KeywordsFieldOk(f.keywords)
       /\ SourceUrlFieldOk(f.source_url)
    THEN [ok                 |-> TRUE,
          original_content   |-> validate_content_length(f.original_content).value,
          normalized_content |-> f.normalized_content,
          text_hash          |-> f.text_hash,
          language           |-> validate_language_code(f.language),
          word_count         |-> f.word_count,
          character_count    |-> f.character_count,
          keywords           |-> validate_keywords(f.keywords),
          source_url         |-> f.source_url]
    ELSE Failed

\* Text.create after original_content is set: lines 156-175.
CreateFrom(original_content, source_url, language, keywords) ==
    LET normalized_content == _normalize_content(original_content)
        text_hash          == from_text(normalized_content)
    IN  IF text_hash.raised THEN Failed
        ELSE TextNew([original_content   |-> original_content,
                      normalized_content |-> normalized_content,
                      text_hash          |-> text_hash.value,
                      language           |-> IF language.some /\ language.v # <<>>
                                             THEN language
                                             ELSE Some(<<"p", "t">>),
                      word_count         |-> WordCount(normalized_content),
                      character_count    |-> Len(original_content),
                      keywords           |-> IF keywords.some THEN keywords.v ELSE <<>>,
                      source_url         |-> source_url])

\* Text.create taking the content as it came for original_content.
create_untrimmed(content, source_url, language, keywords) ==
    IF content = <<>> \/ Strip(content) = <<>> THEN Failed
    ELSE CreateFrom(content, source_url, language, keywords)

\* Text.create(content, source_url, language, keywords)
create(content, source_url, language, keywords) ==
    IF content = <<>> \/ Strip(content) = <<>> THEN Failed
    ELSE CreateFrom(Strip(content), source_url, language, keywords)

NoArgs == [content |-> <<>>, source_url |-> None, language |-> None, keywords |-> None]

TextIdle ==
    /\ textArgs = NoArgs
    /\ textObj = NotCalled

\* Text.create(**textArgs)
TextCreate ==
    /\ ~textObj.called
    /\ textObj' = [called |-> TRUE,
                   result |-> create(textArgs.content, textArgs.source_url,
                                     textArgs.language, textArgs.keywords)]
    /\ UNCHANGED textArgs
    /\ UNCHANGED resultVars
    /\ UNCHANGED confVars
    /\ UNCHANGED procVars

---------------------------------------------------------------------------
(* Classification (entities/classification.py)                              *)

REASONING_MAX_LENGTH == 1000

EVIDENCE_SOURCES_MAX_ITEMS == 10

\* reasoning: Field(max_length=1000)
ReasoningFieldOk(v) == v.some => Len(v.v) <= REASONING_MAX_LENGTH

\* evidence_sources: Field(max_items=10), which pydantic checks on the list
\* as it is handed in, before validate_evidence_sources runs.
EvidenceFieldOk(v) == Len(v) <= EVIDENCE_SOURCES_MAX_ITEMS

\* Classification.validate_evidence_sources(v)
validate_evidence_sources(v) ==
    LET NonBlank(source) == Strip(source) # <<>>
        kept     == SelectSeq(v, NonBlank)
        stripped == [i \in 1..Len(kept) |-> Strip(kept[i])]
        cleaned  == FirstSeen(stripped)
    IN  SubSeq(cleaned, 1, IF Len(cleaned) < EVIDENCE_SOURCES_MAX_ITEMS
                           THEN Len(cleaned) ELSE EVIDENCE_SOURCES_MAX_ITEMS)

\* Classification.validate_reasoning(v)
validate_reasoning(v) ==
    IF ~v.some THEN None
    ELSE LET cleaned == Strip(v.v)
         IN  IF cleaned = <<>> THEN None ELSE Some(cleaned)

\* Classification(...): the fields as validated, or Failed when a constraint
\* rejects one.  confidence is a ConfidenceScore that was built before.
ClassificationNew(f) ==
    IF /\ f.classification_type \in ClassificationTypes
       /\ ReasoningFieldOk(f.reasoning)
       /\ EvidenceFieldOk(f.evidence_sources)
    THEN [ok                  |-> TRUE,
          classification_type |-> f.classification_type,
          confidence          |-> f.confidence,
          reasoning           |-> validate_reasoning(f.reasoning),
          evidence_sources    |-> validate_evidence_sources(f.evidence_sources)]
    ELSE Failed

\* Classification(**clsArgs)
ClassificationCreate ==
    /\ clsArgs.some
    /\ ~clsObj.called
    /\ clsObj' = [called |-> TRUE, result |-> ClassificationNew(clsArgs.v)]
    /\ UNCHANGED <<clsArgs, resArgs, resObj>>
    /\ UNCHANGED queryVars
    /\ UNCHANGED textVars
    /\ UNCHANGED confVars
    /\ UNCHANGED procVars

\* "Insufficient evidence to determine reliability"
INSUFFICIENT_EVIDENCE ==
    << "I", "n", "s", "u", "f", "f", "i", "c", "i", "e", "n", "t", " ",
       "e", "v", "i", "d", "e", "n", "c", "e", " ", "t", "o", " ", "d",
       "e", "t", "e", "r", "m", "i", "n", "e", " ", "r", "e", "l", "i",
       "a", "b", "i", "l", "i", "t", "y" >>

\* evidence_sources or []
OrEmptyList(l) == IF l.some /\ l.v # <<>> THEN l.v ELSE <<>>

\* Classification.create_reliable(confidence, reasoning, evidence_sources)
create_reliable(confidence, reasoning, evidence_sources) ==
    ClassificationNew([classification_type |-> "RELIABLE",
                       confidence          |-> confidence,
                       reasoning           |-> reasoning,
                       evidence_sources    |-> OrEmptyList(evidence_sources)])

\* Classification.create_fake(confidence, reasoning, evidence_sources)
create_fake(confidence, reasoning, evidence_sources) ==
    ClassificationNew([classification_type |-> "FAKE",
                       confidence          |-> confidence,
                       reasoning           |-> reasoning,
                       evidence_sources    |-> OrEmptyList(evidence_sources)])

\* Classification.create_inconclusive(confidence, reasoning)
Classification_create_inconclusive(confidence, reasoning) ==
    ClassificationNew([classification_type |-> "INCONCLUSIVE",
                       confidence          |-> confidence,
                       reasoning           |-> IF reasoning.some /\ reasoning.v # <<>>
                                               THEN reasoning
                                               ELSE Some(INSUFFICIENT_EVIDENCE),
                       evidence_sources    |-> <<>>])

\* Classification.from_confidence_auto(confidence, reasoning, evidence_sources)
from_confidence_auto(confidence, reasoning, evidence_sources) ==
    LET classification_type == from_confidence(confidence)
    IN  ClassificationNew([classification_type |-> classification_type,
                           confidence          |-> confidence,
                           reasoning           |-> reasoning,
                           evidence_sources    |-> OrEmptyList(evidence_sources)])

\* One call of a factory of Classification on clsArgs.
ClassificationFactory(via, result) ==
    /\ clsArgs.some
    /\ ~clsObj.called
    /\ clsObj' = [called |-> TRUE, via |-> via, result |-> result]
    /\ UNCHANGED <<clsArgs, resArgs, resObj>>
    /\ UNCHANGED queryVars
    /\ UNCHANGED textVars
    /\ UNCHANGED confVars
    /\ UNCHANGED procVars

CreateReliable ==
    ClassificationFactory("create_reliable",
        create_reliable(clsArgs.v.confidence, clsArgs.v.reasoning,
                        clsArgs.v.evidence_sources))

CreateFake ==
    ClassificationFactory("create_fake",
        create_fake(clsArgs.v.confidence, clsArgs.v.reasoning,
                    clsArgs.v.evidence_sources))

CreateInconclusive ==
    ClassificationFactory("create_inconclusive",
        Classification_create_inconclusive(clsArgs.v.confidence, clsArgs.v.reasoning))

FromConfidenceAuto ==
    ClassificationFactory("from_confidence_auto",
        from_confidence_auto(clsArgs.v.confidence, clsArgs.v.reasoning,
                             clsArgs.v.evidence_sources))

---------------------------------------------------------------------------
(* AnalysisResult (entities/analysis_result.py)                             *)

AnalysisSources == {"fact_check", "llm", "vector_search", "cache", "hybrid", "manual"}

FACT_CHECK_SOURCES_MAX_ITEMS == 10

\* fact_check_sources: Field(max_items=10), checked before
\* validate_fact_check_sources runs.
FactCheckFieldOk(v) == Len(v) <= FACT_CHECK_SOURCES_MAX_ITEMS

\* AnalysisResult.validate_processing_time(v) and validate_cost(v): raise on a
\* negative number, return v otherwise.
validate_processing_time(v) == IF v < 0 THEN Raised ELSE Returned(v)

validate_cost(v) == IF v < 0 THEN Raised ELSE Returned(v)

\* AnalysisResult.validate_fact_check_sources(v)
validate_fact_check_sources(v) ==
    IF v = <<>> THEN <<>>
    ELSE LET stripped == [i \in 1..Len(v) |-> Strip(v[i])]
             NonBlank(clean_source) == clean_source # <<>>
             cleaned  == FirstSeen(SelectSeq(stripped, NonBlank))
         IN  SubSeq(cleaned, 1, IF Len(cleaned) < FACT_CHECK_SOURCES_MAX_ITEMS
                                THEN Len(cleaned) ELSE FACT_CHECK_SOURCES_MAX_ITEMS)

\* AnalysisResult(...) without the constraints and validators of
\* processing_time_ms and cost_cents.
AnalysisResultNew_unchecked(f) ==
    IF /\ f.text.ok
       /\ f.classification.ok
       /\ f.source \in AnalysisSources
       /\ FactCheckFieldOk(f.fact_check_sources)
       /\ f.similar_texts_found >= 0
    THEN [ok                  |-> TRUE,
          text                |-> f.text,
          classification      |-> f.classification,
          source              |-> f.source,
          processing_time_ms  |-> f.processing_time_ms,
          cost_cents          |-> f.cost_cents,
          expires_at          |-> f.expires_at,
          fact_check_sources  |-> validate_fact_check_sources(f.fact_check_sources),
          similar_texts_found |-> f.similar_texts_found,
          metadata            |-> f.metadata]
    ELSE Failed

\* AnalysisResult(...): the fields as validated, or Failed when a constraint
\* or a validator rejects one.  text and classification are objects that
\* were built before; expires_at is None or a time, a time is a number of
\* clock ticks; metadata is a dict, a function from its keys.
AnalysisResultNew(f) ==
    IF /\ f.text.ok
       /\ f.classification.ok
       /\ f.source \in AnalysisSources
       /\ f.processing_time_ms >= 0
       /\ ~validate_processing_time(f.processing_time_ms).raised
       /\ f.cost_cents >= 0
       /\ ~validate_cost(f.cost_cents).raised
       /\ FactCheckFieldOk(f.fact_check_sources)
       /\ f.similar_texts_found >= 0
    THEN [ok                  |-> TRUE,
          text                |-> f.text,
          classification      |-> f.classification,
          source              |-> f.source,
          processing_time_ms  |-> validate_processing_time(f.processing_time_ms).value,
          cost_cents          |-> validate_cost(f.cost_cents).value,
          expires_at          |-> f.expires_at,
          fact_check_sources  |-> validate_fact_check_sources(f.fact_check_sources),
          similar_texts_found |-> f.similar_texts_found,
          metadata            |-> f.metadata]
    ELSE Failed

\* AnalysisResult(**resArgs)
AnalysisResultCreate ==
    /\ resArgs.some
    /\ ~resObj.called
    /\ resObj' = [called |-> TRUE, result |-> AnalysisResultNew(resArgs.v)]
    /\ UNCHANGED <<clsArgs, clsObj, resArgs>>
    /\ UNCHANGED queryVars
    /\ UNCHANGED textVars
    /\ UNCHANGED confVars
    /\ UNCHANGED procVars

\* "Unable to determine reliability"
UNABLE_TO_DETERMINE ==
    << "U", "n", "a", "b", "l", "e", " ", "t", "o", " ", "d", "e", "t",
       "e", "r", "m", "i", "n", "e", " ", "r", "e", "l", "i", "a", "b",
       "i", "l", "i", "t", "y" >>

\* The value of an argument, or its default when the caller leaves it out.
OrDefault(arg, default) == IF arg.some THEN arg.v ELSE default

\* AnalysisResult.create_from_fact_check(text, classification,
\*     processing_time_ms, fact_check_sources, cost_cents=0, expires_at=None)
create_from_fact_check(text_, classification, processing_time_ms, fact_check_sources, cost_cents, expires_at) ==
    AnalysisResultNew([text                |-> text_,
                       classification      |-> classification,
                       source              |-> "fact_check",
                       processing_time_ms  |-> processing_time_ms,
                       cost_cents          |-> OrDefault(cost_cents, 0),
                       expires_at          |-> expires_at,
                       fact_check_sources  |-> fact_check_sources,
                       similar_texts_found |-> 0,
                       metadata            |-> <<>>])

\* AnalysisResult.create_from_llm(text, classification, processing_time_ms,
\*     cost_cents, api_response_raw=None, expires_at=None)
create_from_llm(text_, classification, processing_time_ms, cost_cents, expires_at) ==
    AnalysisResultNew([text                |-> text_,
                       classification      |-> classification,
                       source              |-> "llm",
                       processing_time_ms  |-> processing_time_ms,
                       cost_cents          |-> cost_cents,
                       expires_at          |-> expires_at,
                       fact_check_sources  |-> <<>>,
                       similar_texts_found |-> 0,
                       metadata            |-> <<>>])

\* create_from_cache labelling the result with the original source.
create_from_cache_relabelled(text_, classification, original_source, processing_time_ms) ==
    AnalysisResultNew([text                |-> text_,
                       classification      |-> classification,
                       source              |-> original_source,
                       processing_time_ms  |-> OrDefault(processing_time_ms, 1),
                       cost_cents          |-> 0,
                       expires_at          |-> None,
                       fact_check_sources  |-> <<>>,
                       similar_texts_found |-> 0,
                       metadata            |-> ("original_source" :> original_source)])

\* AnalysisResult.create_from_cache(text, classification, original_source,
\*     processing_time_ms=1)
create_from_cache(text_, classification, original_source, processing_time_ms) ==
    AnalysisResultNew([text                |-> text_,
                       classification      |-> classification,
                       source              |-> "cache",
                       processing_time_ms  |-> OrDefault(processing_time_ms, 1),
                       cost_cents          |-> 0,
                       expires_at          |-> None,
                       fact_check_sources  |-> <<>>,
                       similar_texts_found |-> 0,
                       metadata            |-> ("original_source" :> original_source)])

\* AnalysisResult.create_inconclusive(text, processing_time_ms,
\*     reason="Unable to determine reliability")
AnalysisResult_create_inconclusive(text_, processing_time_ms, reason) ==
    LET confidence     == validate_range(Frac(1, 2))
        classification ==
            Classification_create_inconclusive(
                CHOOSE v \in confidence : TRUE,
                Some(OrDefault(reason, UNABLE_TO_DETERMINE)))
    IN  IF confidence = {} \/ ~classification.ok THEN Failed
        ELSE AnalysisResultNew([text                |-> text_,
                                classification      |-> classification,
                                source              |-> "hybrid",
                                processing_time_ms  |-> processing_time_ms,
                                cost_cents          |-> 0,
                                expires_at          |-> None,
                                fact_check_sources  |-> <<>>,
                                similar_texts_found |-> 0,
                                metadata            |-> <<>>])

\* One call of a factory of AnalysisResult on resArgs.
AnalysisResultFactory(via, result) ==
    /\ resArgs.some
    /\ ~resObj.called
    /\ resObj' = [called |-> TRUE, via |-> via, result |-> result]
    /\ UNCHANGED <<clsArgs, clsObj, resArgs>>
    /\ UNCHANGED queryVars
    /\ UNCHANGED textVars
    /\ UNCHANGED confVars
    /\ UNCHANGED procVars

\* processing_time_ms has no default in create_from_fact_check, create_from_llm
\* and create_inconclusive, nor has cost_cents in create_from_llm.
CreateFromFactCheck ==
    /\ resArgs.some
    /\ resArgs.v.processing_time_ms.some
    /\ AnalysisResultFactory("create_from_fact_check",
          create_from_fact_check(resArgs.v.text, resArgs.v.classification,
                                 resArgs.v.processing_time_ms.v,
                                 resArgs.v.fact_check_sources,
                                 resArgs.v.cost_cents, resArgs.v.expires_at))

CreateFromLlm ==
    /\ resArgs.some
    /\ resArgs.v.processing_time_ms.some
    /\ resArgs.v.cost_cents.some
    /\ AnalysisResultFactory("create_from_llm",
          create_from_llm(resArgs.v.text, resArgs.v.classification,
                          resArgs.v.processing_time_ms.v, resArgs.v.cost_cents.v,
                          resArgs.v.expires_at))

CreateFromCache ==
    /\ resArgs.some
    /\ AnalysisResultFactory("create_from_cache",
          create_from_cache(resArgs.v.text, resArgs.v.classification,
                            resArgs.v.original_source,
                            resArgs.v.processing_time_ms))

CreateInconclusiveResult ==
    /\ resArgs.some
    /\ resArgs.v.processing_time_ms.some
    /\ AnalysisResultFactory("create_inconclusive",
          AnalysisResult_create_inconclusive(resArgs.v.text,
                                             resArgs.v.processing_time_ms.v,
                                             resArgs.v.reason))

\* AnalysisResult.is_cached()
is_cached(self) == self.source = "cache"

\* is_expired comparing with >= instead of >.
is_expired_at_deadline(self, utcnow) ==
    IF ~self.expires_at.some THEN FALSE ELSE utcnow >= self.expires_at.v

\* AnalysisResult.is_expired(), utcnow being what datetime.utcnow() returns.
is_expired(self, utcnow) ==
    IF ~self.expires_at.some THEN FALSE ELSE utcnow > self.expires_at.v

\* A performance score is a float in the source.  Here it is an integer
\* count of units of 1 / PERF_SCALE; the scale is a common denominator of
\* the four terms for every processing time and cost the inputs take.
PERF_SCALE == 25000 * 12

Max(a, b) == IF a >= b THEN a ELSE b

\* float(confidence) in units of PERF_SCALE.
ToPerf(confidence) ==
    (confidence \div (RAW_SCALE \div ROUND_SCALE)) * (PERF_SCALE \div ROUND_SCALE)

\* min(1.0, a / b) in units of PERF_SCALE.
PerfRatio(a, b) ==
    IF a >= b THEN PERF_SCALE
    ELSE (PERF_SCALE \div b) * a + ((PERF_SCALE % b) * a) \div b

\* x * 0.4, x * 0.3, x * 0.2, x * 0.1
Weighted(x, tenths) == (x * tenths) \div 10

\* AnalysisSource.get_reliability_score with the scores of LLM and
\* VECTOR_SEARCH exchanged.
get_reliability_score_exchanged(source) ==
    CASE source = "fact_check"    -> (PERF_SCALE \div 100) * 95
      [] source = "vector_search" -> (PERF_SCALE \div 100) * 75
      [] source = "llm"           -> (PERF_SCALE \div 100) * 85
      [] source = "hybrid"        -> (PERF_SCALE \div 100) * 90
      [] source = "cache"         -> PERF_SCALE
      [] source = "manual"        -> PERF_SCALE

\* AnalysisSource.get_reliability_score()
get_reliability_score(source) ==
    CASE source = "fact_check"    -> (PERF_SCALE \div 100) * 95
      [] source = "vector_search" -> (PERF_SCALE \div 100) * 85
      [] source = "llm"           -> (PERF_SCALE \div 100) * 75
      [] source = "hybrid"        -> (PERF_SCALE \div 100) * 90
      [] source = "cache"         -> PERF_SCALE
      [] source = "manual"        -> PERF_SCALE

\* The terms of get_performance_score without the min(1.0, ...) of the speed
\* and cost scores.
PerformanceTerms_uncapped(self) ==
    [confidence_score |-> Weighted(ToPerf(self.classification.confidence), 4),
     speed_score      |-> Weighted((PERF_SCALE \div Max(self.processing_time_ms, 100)) * 5000, 3),
     cost_score       |-> Weighted((PERF_SCALE \div Max(self.cost_cents, 1)) * 50, 2),
     source_score     |-> Weighted(get_reliability_score(self.source), 1)]

\* The terms of get_performance_score with a speed score that grows with
\* the processing time.
PerformanceTerms_slow_is_good(self) ==
    [confidence_score |-> Weighted(ToPerf(self.classification.confidence), 4),
     speed_score      |-> Weighted(PerfRatio(Max(self.processing_time_ms, 100), 20000), 3),
     cost_score       |-> Weighted(PerfRatio(50, Max(self.cost_cents, 1)), 2),
     source_score     |-> Weighted(get_reliability_score(self.source), 1)]

\* The four terms of AnalysisResult.get_performance_score(): lines 279-289.
PerformanceTerms(self) ==
    [confidence_score |-> Weighted(ToPerf(self.classification.confidence), 4),
     speed_score      |-> Weighted(PerfRatio(5000, Max(self.processing_time_ms, 100)), 3),
     cost_score       |-> Weighted(PerfRatio(50, Max(self.cost_cents, 1)), 2),
     source_score     |-> Weighted(get_reliability_score(self.source), 1)]

\* AnalysisResult.get_performance_score()
get_performance_score(self) ==
    LET terms == PerformanceTerms(self)
    IN  terms.confidence_score + terms.speed_score + terms.cost_score
            + terms.source_score

\* result.get_performance_score() on the AnalysisResult that was built.
GetPerformanceScore ==
    /\ resObj.called
    /\ resObj.result.ok
    /\ ~perf.called
    /\ perf' = [called |-> TRUE, value |-> get_performance_score(resObj.result)]
    /\ UNCHANGED <<clsArgs, clsObj, resArgs, resObj, now, seen, user, ret>>
    /\ UNCHANGED textVars
    /\ UNCHANGED confVars
    /\ UNCHANGED procVars

\* Latest time the clock reaches.
MaxClock == 5

\* Time passes: datetime.utcnow() returns a later time from now on.
Tick ==
    /\ now < MaxClock
    /\ now' = now + 1
    /\ UNCHANGED <<clsArgs, clsObj, resArgs, resObj, seen, perf, user, ret>>
    /\ UNCHANGED textVars
    /\ UNCHANGED confVars
    /\ UNCHANGED procVars

\* result.is_expired() on the AnalysisResult that was built; seen keeps what
\* the call gave, when it was made and what the call before it gave.
IsExpired ==
    /\ resObj.called
    /\ resObj.result.ok
    /\ seen' = [called |-> TRUE,
                value  |-> is_expired(resObj.result, now),
                at     |-> now,
                before |-> IF seen.called THEN seen.value ELSE FALSE]
    /\ UNCHANGED <<clsArgs, clsObj, resArgs, resObj, now, perf, user, ret>>
    /\ UNCHANGED textVars
    /\ UNCHANGED confVars
    /\ UNCHANGED procVars

QueryIdle ==
    /\ now = 0
    /\ seen = NotCalled
    /\ perf = NotCalled
    /\ user = NotCalled
    /\ ret = NotCalled

ResultIdle ==
    /\ clsArgs = None
    /\ clsObj = NotCalled
    /\ resArgs = None
    /\ resObj = NotCalled
    /\ QueryIdle

EntityIdle == TextIdle /\ ResultIdle
---------------------------------------------------------------------------
(* Specification of TextProcessor on one text.                              *)

\* All sequences over alphabet of length lo..hi.
SeqsOf(alphabet, lo, hi) ==
    UNION {[1..n -> alphabet] : n \in lo..hi}

\* Longest input text.
MaxLen == 3

NormAlphabet ==
    {"a", "A", "e", "ACUTE", " ", "\t", "\n", "\r", "NBSP", "SOH", "!", ".", "LDQUO"}

\* "  Hello   World!!  "
HelloWorld ==
    <<" ", " ", "H", "e", "l", "l", "o", " ", " ", " ",
      "W", "o", "r", "l", "d", "!", "!", " ", " ">>

InitNormalize ==
    /\ text \in SeqsOf(NormAlphabet, 0, MaxLen) \cup {HelloWorld}
    /\ other = text
    /\ canon = NotCalled
    /\ digest = NotCalled
    /\ sim = NotCalled
    /\ out = NotCalled
    /\ ConfIdle
    /\ EntityIdle

NextNormalize ==
    \/ \E for_hashing \in BOOLEAN : Normalize(for_hashing)
    \/ GenerateHash

SpecNormalize == InitNormalize /\ [][NextNormalize]_vars

---------------------------------------------------------------------------
(* Claims on normalize and generate_hash, one text at a time.               *)

\* Only spaces, tabs, newlines and carriage returns (the empty text too).
Blank(t) == \A i \in 1..Len(t) : t[i] \in {" ", "\t", "\n", "\r"}

FirstPunctuation(s) ==
    LET idx == {i \in 1..Len(s) : s[i] \in TerminalPunctuation}
    IN  IF idx = {} THEN <<>>
        ELSE <<s[CHOOSE i \in idx : \A j \in idx : i <= j]>>

\* C7: for every accepted text, normalize(text, for_hashing=True) has no
\* leading or trailing whitespace, no two adjacent whitespace characters,
\* no tab, newline or carriage return, no uppercase letter and no two
\* adjacent characters of .,;:!? (a run keeps its first character);
\* "  Hello   World!!  " yields "hello world!".
C7_CanonicalShape ==
    canon.called /\ canon.for_hashing /\ ~canon.a.raised =>
        LET v == canon.a.value
        IN  /\ v # <<>> => v[1] \notin Spaces /\ v[Len(v)] \notin Spaces
            /\ \A i \in 1..(Len(v) - 1) : ~(v[i] \in Spaces /\ v[i + 1] \in Spaces)
            /\ \A i \in 1..Len(v) : v[i] \notin {"\t", "\n", "\r"}
            /\ \A i \in 1..Len(v) : v[i] \notin UpperLetters
            /\ \A i \in 1..(Len(v) - 1) :
                  ~(v[i] \in TerminalPunctuation /\ v[i + 1] \in TerminalPunctuation)
            /\ FirstPunctuation(v) = FirstPunctuation(text)
            /\ text = HelloWorld =>
                  v = <<"h", "e", "l", "l", "o", " ", "w", "o", "r", "l", "d", "!">>

C7_Witness ==
    /\ canon.called
    /\ canon.for_hashing
    /\ text = HelloWorld
    /\ canon.a = Returned(<<"h", "e", "l", "l", "o", " ", "w", "o", "r", "l", "d", "!">>)

---------------------------------------------------------------------------
(* Two texts that differ in whitespace, letter case, repeated terminal      *)
(* punctuation or quote style: other is derived from text step by step.     *)

\* s with c inserted after position p (p = 0: in front).
InsertAt(s, p, c) == SubSeq(s, 1, p) \o <<c>> \o SubSeq(s, p + 1, Len(s))

\* The kinds of whitespace the variations use.
PlainSpaces == {" ", "\t", "\n"}

Untouched == ~canon.called /\ ~digest.called

\* One whitespace character of other replaced by one of another kind.
VaryWhitespaceKind ==
    /\ Untouched
    /\ \E i \in 1..Len(other) : \E w \in PlainSpaces :
          /\ other[i] \in PlainSpaces
          /\ other[i] # w
          /\ other' = [other EXCEPT ![i] = w]
    /\ UNCHANGED <<text, canon, digest, sim, out>>
    /\ UNCHANGED confVars
    /\ UNCHANGED entityVars

\* One more whitespace character in other (while it is no longer than text):
\* in front, at the end, or next to a whitespace character.
VaryWhitespaceAmount ==
    /\ Untouched
    /\ Len(other) <= Len(text)
    /\ \E p \in 0..Len(other) : \E w \in PlainSpaces :
          /\ IF p = 0 \/ p = Len(other) THEN TRUE
             ELSE other[p] \in PlainSpaces \/ other[p + 1] \in PlainSpaces
          /\ other' = InsertAt(other, p, w)
    /\ UNCHANGED <<text, canon, digest, sim, out>>
    /\ UNCHANGED confVars
    /\ UNCHANGED entityVars

\* One letter of other in the other case.
VaryCase ==
    /\ Untouched
    /\ \E i \in 1..Len(other) :
          /\ other[i] \in UpperLetters \cup LowerLetters
          /\ other' = [other EXCEPT ![i] =
                          IF other[i] \in UpperLetters THEN LowerChar(other[i])
                          ELSE UpperChar(other[i])]
    /\ UNCHANGED <<text, canon, digest, sim, out>>
    /\ UNCHANGED confVars
    /\ UNCHANGED entityVars

\* One terminal punctuation character of other repeated once more (while
\* other is no longer than text).
VaryPunctuation ==
    /\ Untouched
    /\ Len(other) <= Len(text)
    /\ \E i \in 1..Len(other) :
          /\ other[i] \in TerminalPunctuation
          /\ other' = InsertAt(other, i, other[i])
    /\ UNCHANGED <<text, canon, digest, sim, out>>
    /\ UNCHANGED confVars
    /\ UNCHANGED entityVars

HashAlphabet == {"a", "A", " ", "\t", "!", "."}

InitHash ==
    /\ text \in SeqsOf(HashAlphabet, 1, MaxLen)
    /\ other = text
    /\ canon = NotCalled
    /\ digest = NotCalled
    /\ sim = NotCalled
    /\ out = NotCalled
    /\ ConfIdle
    /\ EntityIdle

NextHash ==
    \/ VaryWhitespaceKind
    \/ VaryWhitespaceAmount
    \/ VaryCase
    \/ VaryPunctuation
    \/ GenerateHash

SpecHash == InitHash /\ [][NextHash]_vars

StraightOf(c) ==
    CASE c \in {"LDQUO", "RDQUO"} -> "DQUOTE"
      [] c \in {"LSQUO", "RSQUO"} -> "SQUOTE"
      [] OTHER -> c

\* One curly quote of other replaced by its straight quote.
VaryQuoteStyle ==
    /\ Untouched
    /\ \E i \in 1..Len(other) :
          /\ other[i] \in {"LDQUO", "RDQUO", "LSQUO", "RSQUO"}
          /\ other' = [other EXCEPT ![i] = StraightOf(other[i])]
    /\ UNCHANGED <<text, canon, digest, sim, out>>
    /\ UNCHANGED confVars
    /\ UNCHANGED entityVars

QuoteAlphabet == {"a", " ", "DQUOTE", "LDQUO", "RDQUO", "SQUOTE", "LSQUO", "RSQUO"}

InitQuote ==
    /\ text \in SeqsOf(QuoteAlphabet, 1, MaxLen)
    /\ other = text
    /\ canon = NotCalled
    /\ digest = NotCalled
    /\ sim = NotCalled
    /\ out = NotCalled
    /\ ConfIdle
    /\ EntityIdle

NextQuote ==
    \/ VaryQuoteStyle
    \/ Normalize(TRUE)
    \/ GenerateHash

SpecQuote == InitQuote /\ [][NextQuote]_vars

\* C5: normalize(text, for_hashing=True) replaces every curly double and
\* single quote by the straight ASCII quote, so two texts that differ only
\* in quote style have the same canonical form and the same hash.
C5_QuoteStyleIgnored ==
    /\ canon.called =>
          /\ canon.a.value = canon.b.value
          /\ \A i \in 1..Len(canon.a.value) :
                canon.a.value[i] \notin {"LDQUO", "RDQUO", "LSQUO", "RSQUO"}
    /\ digest.called => digest.a.value = digest.b.value

---------------------------------------------------------------------------
(* Specification of Text.create over contents of every length around the    *)
(* two limits.                                                              *)

\* Most whitespace in front of and behind a content.
MaxPad == 1

\* How far around the two length limits the contents go.
Span == 2

FillLens ==
    {0} \cup ((TEXT_MIN_LENGTH - Span)..(TEXT_MIN_LENGTH + Span))
        \cup ((TEXT_MAX_LENGTH - Span)..(TEXT_MAX_LENGTH + Span))

\* A content: spaces, a head, one character repeated, newlines.
ContentInputs ==
    { Rep(" ", l) \o head \o Rep(fill, n) \o Rep("\n", r) :
        l \in 0..MaxPad, r \in 0..MaxPad,
        head \in {<<>>, <<"A", " ">>, <<"SOH">>},
        fill \in {"a", " ", "SOH"},
        n \in FillLens }

\* What goes with the content: nothing; a URL, a language and a keyword; a
\* URL that is too long.
OtherArgs ==
    { [source_url |-> None, language |-> None, keywords |-> None],
      [source_url |-> Some(Rep("u", SOURCE_URL_MAX_LENGTH)),
       language   |-> Some(<<"e", "n">>),
       keywords   |-> Some(<< <<"a", "b">> >>)],
      [source_url |-> Some(Rep("u", SOURCE_URL_MAX_LENGTH + 1)),
       language   |-> None, keywords |-> None] }

InitTextContent ==
    /\ \E c \in ContentInputs : \E o \in OtherArgs :
          textArgs = [content |-> c, source_url |-> o.source_url,
                      language |-> o.language, keywords |-> o.keywords]
    /\ textObj = NotCalled
    /\ ResultIdle
    /\ ConfIdle
    /\ ProcIdle

NextTextContent == TextCreate

SpecTextContent == InitTextContent /\ [][NextTextContent]_vars

\* The part of s between its first and its last character that is not
\* whitespace.
Trimmed(s) ==
    LET idx == {i \in 1..Len(s) : s[i] \notin Spaces}
    IN  IF idx = {} THEN <<>>
        ELSE SubSeq(s, CHOOSE i \in idx : \A j \in 1..(i - 1) : j \notin idx,
                       CHOOSE i \in idx : \A j \in (i + 1)..Len(s) : j \notin idx)

\* C8: Text.create(content) fails whenever the trimmed content is shorter
\* than 10 or longer than 2000 characters (empty and whitespace-only
\* content included); every Text it returns has original_content equal to
\* the trimmed content, of length in [10,2000], and character_count equal
\* to that length.
C8_ContentLengthBounds ==
    textObj.called =>
        LET trimmed == Trimmed(textArgs.content)
            t       == textObj.result
        IN  /\ (Len(trimmed) < 10 \/ Len(trimmed) > 2000) => ~t.ok
            /\ t.ok =>
                  /\ t.original_content = trimmed
                  /\ 10 <= Len(t.original_content)
                  /\ Len(t.original_content) <= 2000
                  /\ t.character_count = Len(trimmed)

C8_Witness ==
    /\ textObj.called
    /\ textObj.result.ok
    /\ textArgs.content # textObj.result.original_content
    /\ Len(textArgs.content) > 2000
    /\ textObj.result.character_count = 2000

---------------------------------------------------------------------------
(* Specification of Text.create over keyword lists.                         *)

\* Longest keyword list that is enumerated entry by entry.
MaxKeywords == 3

\* "ab", " Ab ", "cd", "c", "", "  ", "CDe"
KeywordPool ==
    { <<"a", "b">>, <<" ", "A", "b", " ">>, <<"c", "d">>, <<"c">>, <<>>,
      <<" ", " ">>, <<"C", "D", "e">> }

\* Every short list over the pool, and lists of about KEYWORDS_MAX_ITEMS
\* entries that repeat one or two keywords.
KeywordInputs ==
    SeqsOf(KeywordPool, 0, MaxKeywords)
        \cup { Cycle(base, n) :
                 base \in SeqsOf(KeywordPool, 1, 2),
                 n \in (KEYWORDS_MAX_ITEMS - 1)..(KEYWORDS_MAX_ITEMS + 1) }

InitTextKeywords ==
    /\ \E c \in {Rep("a", TEXT_MIN_LENGTH), <<"A", " ">> \o Rep("b", TEXT_MIN_LENGTH)} :
       \E k \in {None} \cup {Some(l) : l \in KeywordInputs} :
          textArgs = [content |-> c, source_url |-> None, language |-> None,
                      keywords |-> k]
    /\ textObj = NotCalled
    /\ ResultIdle
    /\ ConfIdle
    /\ ProcIdle

NextTextKeywords == TextCreate

SpecTextKeywords == InitTextKeywords /\ [][NextTextKeywords]_vars

\* Position of the first entry of supplied that cleans (trimmed, lowercased)
\* to k; 0 when there is none.
FirstPosition(supplied, k) ==
    LET idx == {i \in 1..Len(supplied) : Lower(Trimmed(supplied[i])) = k}
    IN  IF idx = {} THEN 0 ELSE CHOOSE i \in idx : \A j \in idx : i <= j

\* kw is a cleaned form of supplied: at most 20 entries, each lowercase,
\* trimmed, of 2 characters or more, pairwise distinct, each from the
\* supplied list and in the order of first occurrence there.
CleanKeywords(kw, supplied) ==
    /\ Len(kw) <= 20
    /\ \A i \in 1..Len(kw) :
          /\ Lower(kw[i]) = kw[i]
          /\ Trimmed(kw[i]) = kw[i]
          /\ Len(kw[i]) >= 2
          /\ FirstPosition(supplied, kw[i]) > 0
    /\ \A i, j \in 1..Len(kw) :
          i < j => FirstPosition(supplied, kw[i]) < FirstPosition(supplied, kw[j])

\* The keyword list of the call, [] when none is supplied.
Supplied == IF textArgs.keywords.some THEN textArgs.keywords.v ELSE <<>>

\* C10: every Text that exists has at most 20 keywords, each lowercase,
\* trimmed, at least 2 characters long, pairwise distinct and in the order
\* of first occurrence in the supplied list; and any keyword list supplied
\* to Text.create (duplicates, blanks, mixed case, more than 20 entries) is
\* cleaned to this form rather than rejected.
C10_KeywordsCleanedNeverRejected ==
    textObj.called =>
        /\ textObj.result.ok
        /\ CleanKeywords(textObj.result.keywords, Supplied)

\* The part of C10 about the Texts that exist.
KeywordsOfTextsClean ==
    textObj.called /\ textObj.result.ok =>
        CleanKeywords(textObj.result.keywords, Supplied)

---------------------------------------------------------------------------
(* Specification of the Classification and AnalysisResult constructors      *)
(* over source lists.                                                       *)

\* Longest source list that is enumerated entry by entry.
MaxSources == 3

\* "a", " a ", "", " ", "b"
SourcePool == { <<"a">>, <<" ", "a", " ">>, <<>>, <<" ">>, <<"b">> }

\* ['a', 'a', '', 'b']
ExampleBase == << <<"a">>, <<"a">>, <<>>, <<"b">> >>

\* Every short list over the pool, and lists of about ten entries that
\* repeat one, two or the four example entries.
SourceInputs ==
    SeqsOf(SourcePool, 0, MaxSources)
        \cup { Cycle(base, n) :
                 base \in SeqsOf(SourcePool, 1, 2) \cup {ExampleBase},
                 n \in (EVIDENCE_SOURCES_MAX_ITEMS - 1)..(EVIDENCE_SOURCES_MAX_ITEMS + 2) }

SampleText == create(Rep("a", TEXT_MIN_LENGTH), None, None, None)

SampleClassification ==
    ClassificationNew([classification_type |-> "RELIABLE",
                       confidence          |-> Frac(9, 10),
                       reasoning           |-> None,
                       evidence_sources    |-> <<>>])

InitSources ==
    /\ \E l \in SourceInputs :
       \E r \in {None, Some(<<" ">>), Some(<<" ", "o", "k">>)} :
          /\ clsArgs = Some([classification_type |-> "RELIABLE",
                             confidence          |-> Frac(9, 10),
                             reasoning           |-> r,
                             evidence_sources    |-> l])
          /\ resArgs = Some([text                |-> SampleText,
                             classification      |-> SampleClassification,
                             source              |-> "fact_check",
                             processing_time_ms  |-> IF r.some THEN 5 ELSE 0,
                             cost_cents          |-> 0,
                             expires_at          |-> None,
                             fact_check_sources  |-> l,
                             similar_texts_found |-> 0,
                             metadata            |-> <<>>])
    /\ clsObj = NotCalled
    /\ resObj = NotCalled
    /\ QueryIdle
    /\ TextIdle
    /\ ConfIdle
    /\ ProcIdle

NextSources ==
    \/ ClassificationCreate
    \/ AnalysisResultCreate

SpecSources == InitSources /\ [][NextSources]_vars

\* Position of the first entry of supplied that trims to k; 0 when there is
\* none.
SourcePosition(supplied, k) ==
    LET idx == {i \in 1..Len(supplied) : Trimmed(supplied[i]) = k}
    IN  IF idx = {} THEN 0 ELSE CHOOSE i \in idx : \A j \in idx : i <= j

\* stored is the first at most 10 distinct, non-blank, trimmed entries of
\* supplied in first-seen order.
CleanSources(stored, supplied) ==
    /\ Len(stored) <= 10
    /\ \A i \in 1..Len(stored) :
          /\ stored[i] # <<>>
          /\ Trimmed(stored[i]) = stored[i]
          /\ SourcePosition(supplied, stored[i]) > 0
    /\ \A i, j \in 1..Len(stored) :
          i < j => SourcePosition(supplied, stored[i]) < SourcePosition(supplied, stored[j])
    /\ \A p \in 1..Len(supplied) :
          Trimmed(supplied[p]) # <<>> =>
             \/ \E i \in 1..Len(stored) : stored[i] = Trimmed(supplied[p])
             \/ /\ Len(stored) = 10
                /\ \A i \in 1..Len(stored) : SourcePosition(supplied, stored[i]) < p
    /\ supplied = Cycle(ExampleBase, 12) => stored = << <<"a">>, <<"b">> >>

\* C9: constructing a Classification with any evidence_sources list, or an
\* AnalysisResult with any fact_check_sources list (lists of more than 10
\* entries with duplicates and blank strings included), succeeds and stores
\* the first at most 10 distinct, non-blank, trimmed entries in first-seen
\* order; ['a','a','','b'] repeated 3 times is stored as ['a','b'].
C9_SourcesCleanedNeverRejected ==
    /\ clsObj.called =>
          /\ clsObj.result.ok
          /\ CleanSources(clsObj.result.evidence_sources, clsArgs.v.evidence_sources)
    /\ resObj.called =>
          /\ resObj.result.ok
          /\ CleanSources(resObj.result.fact_check_sources, resArgs.v.fact_check_sources)

\* The part of C9 about the lists of the objects that are built.
SourcesOfObjectsClean ==
    /\ clsObj.called /\ clsObj.result.ok =>
          CleanSources(clsObj.result.evidence_sources, clsArgs.v.evidence_sources)
    /\ resObj.called /\ resObj.result.ok =>
          CleanSources(resObj.result.fact_check_sources, resArgs.v.fact_check_sources)

---------------------------------------------------------------------------
(* Specification of the factories of Classification.                        *)

\* Stored confidences: the band edges, 0.5 and 0.9, and their neighbours one
\* step of 10^-ROUND_DIGITS away.
ConfidenceInputs ==
    { v \in 0..RAW_SCALE :
        /\ v % (RAW_SCALE \div ROUND_SCALE) = 0
        /\ \E e \in Edges \cup {Frac(1, 2), Frac(9, 10)} :
              Abs(v - e) <= RAW_SCALE \div ROUND_SCALE }

\* Most entries of an evidence list beyond EVIDENCE_SOURCES_MAX_ITEMS.
MaxExtra == 1

\* None, '', ' ', ' ok ', and texts of about REASONING_MAX_LENGTH characters.
ReasoningInputs ==
    {None, Some(<<>>), Some(<<" ">>), Some(<<" ", "o", "k", " ">>)}
        \cup { Some(Rep("r", n)) :
                 n \in (REASONING_MAX_LENGTH - 1)..(REASONING_MAX_LENGTH + MaxExtra) }

\* None, [], ['a'], ['a', ' a ', 'b'], and lists of about
\* EVIDENCE_SOURCES_MAX_ITEMS entries.
EvidenceInputs ==
    {None, Some(<<>>), Some(<< <<"a">> >>),
     Some(<< <<"a">>, <<" ", "a", " ">>, <<"b">> >>)}
        \cup { Some(Cycle(ExampleBase, n)) :
                 n \in (EVIDENCE_SOURCES_MAX_ITEMS - 1)..(EVIDENCE_SOURCES_MAX_ITEMS + MaxExtra) }

InitClassification ==
    /\ \E c \in ConfidenceInputs : \E r \in ReasoningInputs : \E e \in EvidenceInputs :
          clsArgs = Some([confidence |-> c, reasoning |-> r, evidence_sources |-> e])
    /\ clsObj = NotCalled
    /\ resArgs = None
    /\ resObj = NotCalled
    /\ QueryIdle
    /\ TextIdle
    /\ ConfIdle
    /\ ProcIdle

NextClassification ==
    \/ CreateReliable
    \/ CreateFake
    \/ CreateInconclusive
    \/ FromConfidenceAuto

SpecClassification == InitClassification /\ [][NextClassification]_vars

\* The band the claims give to a confidence: RELIABLE from 0.8, INCONCLUSIVE
\* from 0.4, UNFOUNDED from 0.2, FAKE below.
BandOf(c) ==
    CHOOSE t \in ClassificationTypes :
        /\ t = "RELIABLE" <=> c >= 80000
        /\ t = "INCONCLUSIVE" <=> (40000 <= c /\ c < 80000)
        /\ t = "UNFOUNDED" <=> (20000 <= c /\ c < 40000)
        /\ t = "FAKE" <=> c < 20000

\* C11: from_confidence_auto is total: for every valid ConfidenceScore, any
\* optional reasoning and any evidence list it returns a Classification, and
\* the type of that Classification is from_confidence(confidence).
C11_FromConfidenceAutoTotal ==
    clsObj.called /\ clsObj.via = "from_confidence_auto" =>
        /\ clsObj.result.ok
        /\ clsObj.result.classification_type = BandOf(clsArgs.v.confidence)

\* The part of C11 about the Classifications that from_confidence_auto returns.
AutoTypeFollowsConfidence ==
    clsObj.called /\ clsObj.via = "from_confidence_auto" /\ clsObj.result.ok =>
        clsObj.result.classification_type = BandOf(clsArgs.v.confidence)

\* C12: every Classification built by create_reliable, create_fake,
\* create_inconclusive or from_confidence_auto has the type that
\* from_confidence gives to its confidence.
C12_TypeDerivedFromConfidence ==
    clsObj.called /\ clsObj.result.ok =>
        clsObj.result.classification_type = BandOf(clsObj.result.confidence)

---------------------------------------------------------------------------
(* Specification of get_performance_score on the results the constructor    *)
(* builds.                                                                  *)

\* Largest multiple of the saturation points (5000 ms, 50 cents) taken as a
\* processing time and as a cost.
MaxFactor == 3

\* a / b and its weighted terms are whole numbers of units of PERF_SCALE.
PerfExact(a, b) ==
    \/ a >= b
    \/ /\ ((PERF_SCALE % b) * a) % b = 0
       /\ PerfRatio(a, b) % 10 = 0

PerfTimes ==
    { t \in {0, 99, 100, 101, 1000, 4999, 5000, 6250}
              \cup {5000 * m : m \in 2..MaxFactor} :
        PerfExact(5000, Max(t, 100)) }

PerfCosts ==
    { k \in {0, 1, 2, 5, 49, 50, 80} \cup {50 * m : m \in 2..MaxFactor} :
        PerfExact(50, Max(k, 1)) }

\* A Classification of confidence c, as from_confidence_auto builds it.
ClassificationOf(c) == from_confidence_auto(c, None, None)

InitPerformance ==
    /\ \E c \in ConfidenceInputs : \E t \in PerfTimes : \E k \in PerfCosts :
       \E s \in AnalysisSources :
          resArgs = Some([text                |-> SampleText,
                          classification      |-> ClassificationOf(c),
                          source              |-> s,
                          processing_time_ms  |-> t,
                          cost_cents          |-> k,
                          expires_at          |-> None,
                          fact_check_sources  |-> <<>>,
                          similar_texts_found |-> 0,
                          metadata            |-> <<>>])
    /\ clsArgs = None
    /\ clsObj = NotCalled
    /\ resObj = NotCalled
    /\ QueryIdle
    /\ TextIdle
    /\ ConfIdle
    /\ ProcIdle

NextPerformance ==
    \/ AnalysisResultCreate
    \/ GetPerformanceScore

SpecPerformance == InitPerformance /\ [][NextPerformance]_vars

\* C13: for all valid inputs get_performance_score() lies in [0,1], and each
\* of its four terms stays within its weight: 0.4, 0.3, 0.2 and 0.1.
C13_ScoreWithinUnitInterval ==
    perf.called =>
        LET terms == PerformanceTerms(resObj.result)
        IN  /\ 0 <= perf.value /\ perf.value <= PERF_SCALE
            /\ 0 <= terms.confidence_score
            /\ 10 * terms.confidence_score <= 4 * PERF_SCALE
            /\ 0 <= terms.speed_score
            /\ 10 * terms.speed_score <= 3 * PERF_SCALE
            /\ 0 <= terms.cost_score
            /\ 10 * terms.cost_score <= 2 * PERF_SCALE
            /\ 0 <= terms.source_score
            /\ 10 * terms.source_score <= PERF_SCALE

\* The score 1.0 is reached: confidence 1.0, a fast and free cached result.
C13_Witness ==
    /\ perf.called
    /\ perf.value = PERF_SCALE
    /\ resObj.result.source = "cache"
    /\ resObj.result.processing_time_ms = 5000

\* n * min(1, a / b)
TimesMinOne(n, a, b) == IF a >= b THEN n ELSE (n * a) \div b

\* The reliability table of the claim, in hundredths.
ClaimedReliability(source) ==
    CASE source = "fact_check"    -> 95
      [] source = "vector_search" -> 85
      [] source = "llm"           -> 75
      [] source = "hybrid"        -> 90
      [] source = "cache"         -> 100
      [] source = "manual"        -> 100

\* 0.4*confidence + 0.3*min(1, 5000/max(t,100)) + 0.2*min(1, 50/max(k,1))
\* + 0.1*reliability(source), in units of 1/300000.
ClaimedScore(confidence, t, k, source) ==
    (12 * confidence) \div 10
        + TimesMinOne(90000, 5000, IF t > 100 THEN t ELSE 100)
        + TimesMinOne(60000, 50, IF k > 1 THEN k ELSE 1)
        + 300 * ClaimedReliability(source)

\* C14: get_performance_score() equals 0.4*confidence
\* + 0.3*min(1, 5000/max(processing_time_ms,100))
\* + 0.2*min(1, 50/max(cost_cents,1)) + 0.1*reliability(source), with
\* reliability 0.95, 0.85, 0.75, 0.90, 1.0, 1.0 for FACT_CHECK, VECTOR_SEARCH,
\* LLM, HYBRID, CACHE, MANUAL; confidence 0.9, 1000 ms, 5 cents and
\* FACT_CHECK give 0.955.
C14_ScoreFormula ==
    perf.called =>
        LET r == resObj.result
        IN  /\ PERF_SCALE = 300000
            /\ perf.value = ClaimedScore(r.classification.confidence,
                                         r.processing_time_ms, r.cost_cents, r.source)
            /\ ( /\ r.classification.confidence = 90000
                 /\ r.processing_time_ms = 1000
                 /\ r.cost_cents = 5
                 /\ r.source = "fact_check" ) => 1000 * perf.value = 955 * PERF_SCALE

\* The example of the claim: confidence 0.9, 1000 ms, 5 cents, FACT_CHECK.
C14_Witness ==
    /\ perf.called
    /\ resObj.result.classification.confidence = 90000
    /\ resObj.result.processing_time_ms = 1000
    /\ resObj.result.cost_cents = 5
    /\ resObj.result.source = "fact_check"
    /\ perf.value = 286500

\* The result with another confidence, processing time or cost.
WithConfidence(r, c) == [r EXCEPT !.classification = ClassificationOf(c)]

WithTime(r, t) == [r EXCEPT !.processing_time_ms = t]

WithCost(r, k) == [r EXCEPT !.cost_cents = k]

\* C15: with the other inputs fixed, get_performance_score() does not
\* decrease when the confidence grows and does not increase when the
\* processing time or the cost grows; every processing time up to 5000 ms
\* gives the full speed term 0.3 and every cost up to 50 cents the full cost
\* term 0.2.
C15_MonotoneAndSaturating ==
    perf.called =>
        LET r     == resObj.result
            terms == PerformanceTerms(r)
        IN  /\ \A c \in ConfidenceInputs :
                  c >= r.classification.confidence =>
                      get_performance_score(WithConfidence(r, c)) >= perf.value
            /\ \A t \in PerfTimes :
                  t >= r.processing_time_ms =>
                      get_performance_score(WithTime(r, t)) <= perf.value
            /\ \A k \in PerfCosts :
                  k >= r.cost_cents =>
                      get_performance_score(WithCost(r, k)) <= perf.value
            /\ r.processing_time_ms <= 5000 => 10 * terms.speed_score = 3 * PERF_SCALE
            /\ r.cost_cents <= 50 => 10 * terms.cost_score = 2 * PERF_SCALE

\* A slow and costly result, whose score a slower one and a costlier one
\* fall short of.
C15_Witness ==
    /\ perf.called
    /\ resObj.result.processing_time_ms = 10000
    /\ resObj.result.cost_cents = 100
    /\ get_performance_score(WithTime(resObj.result, 15000)) < perf.value
    /\ get_performance_score(WithCost(resObj.result, 150)) < perf.value
    /\ get_performance_score(WithTime(resObj.result, 5000)) > perf.value

---------------------------------------------------------------------------
(* Specification of the factories of AnalysisResult.                        *)

\* Largest processing time and largest cost handed to a factory; the
\* smallest of each is -1.
MaxTime == 2

MaxCost == 1

\* None, '', ' ', ' x ', and reasons of about REASONING_MAX_LENGTH characters.
ReasonInputs ==
    {None, Some(<<>>), Some(<<" ">>), Some(<<" ", "x", " ">>)}
        \cup { Some(Rep("r", n)) :
                 n \in (REASONING_MAX_LENGTH - 1)..(REASONING_MAX_LENGTH + MaxExtra) }

InitResults ==
    /\ \E t \in {None} \cup {Some(n) : n \in (0 - 1)..MaxTime} :
       \E k \in {None} \cup {Some(n) : n \in (0 - 1)..MaxCost} :
       \E o \in AnalysisSources :
       \E r \in ReasonInputs :
       \E c \in {Frac(1, 10), Frac(9, 10)} :
       \E x \in {None, Some(1)} :
          resArgs = Some([text               |-> SampleText,
                          classification     |-> ClassificationOf(c),
                          processing_time_ms |-> t,
                          cost_cents         |-> k,
                          fact_check_sources |-> IF x.some THEN << <<"a">> >> ELSE <<>>,
                          expires_at         |-> x,
                          original_source    |-> o,
                          reason             |-> r])
    /\ clsArgs = None
    /\ clsObj = NotCalled
    /\ resObj = NotCalled
    /\ QueryIdle
    /\ TextIdle
    /\ ConfIdle
    /\ ProcIdle

NextResults ==
    \/ CreateFromFactCheck
    \/ CreateFromLlm
    \/ CreateFromCache
    \/ CreateInconclusiveResult

SpecResults == InitResults /\ [][NextResults]_vars

\* The call that was made, and whether it gave an AnalysisResult.
Built(via) == resObj.called /\ resObj.via = via /\ resObj.result.ok

\* C16: a result built by create_from_cache has source CACHE (is_cached() is
\* true), cost 0 whatever the original analysis cost, processing time 1
\* unless the caller supplies another non-negative value, no expiry, and
\* metadata['original_source'] equal to the original source's value;
\* is_cached() is false for the results of every other factory.
C16_CacheResult ==
    /\ resObj.called /\ resObj.via = "create_from_cache" =>
          LET given == resArgs.v.processing_time_ms
              r     == resObj.result
          IN  /\ r.ok <=> (given.some => given.v >= 0)
              /\ r.ok =>
                    /\ r.source = "cache"
                    /\ is_cached(r)
                    /\ r.cost_cents = 0
                    /\ r.processing_time_ms = (IF given.some THEN given.v ELSE 1)
                    /\ r.expires_at = None
                    /\ DOMAIN r.metadata = {"original_source"}
                    /\ r.metadata["original_source"] = resArgs.v.original_source
    /\ \A via \in {"create_from_fact_check", "create_from_llm", "create_inconclusive"} :
          Built(via) => ~is_cached(resObj.result)

\* A cached result of an analysis by the LLM that had a cost, built with the
\* default processing time.
C16_Witness ==
    /\ Built("create_from_cache")
    /\ resArgs.v.original_source = "llm"
    /\ resArgs.v.cost_cents = Some(1)
    /\ resArgs.v.processing_time_ms = None
    /\ resObj.result.processing_time_ms = 1

\* C17: a result built by AnalysisResult.create_inconclusive(text, time,
\* reason) always has source HYBRID, cost 0, confidence exactly 0.5, type
\* INCONCLUSIVE, an empty evidence list, and a non-empty reasoning: the
\* caller's reason when one is supplied, a default message otherwise.
C17_InconclusiveResult ==
    Built("create_inconclusive") =>
        LET r      == resObj.result
            reason == resArgs.v.reason
        IN  /\ r.source = "hybrid"
            /\ r.cost_cents = 0
            /\ r.classification.confidence = 50000
            /\ r.classification.classification_type = "INCONCLUSIVE"
            /\ r.classification.classification_type = BandOf(50000)
            /\ r.classification.evidence_sources = <<>>
            /\ r.classification.reasoning.some
            /\ r.classification.reasoning.v # <<>>
            /\ IF reason.some /\ reason.v # <<>>
               THEN r.classification.reasoning.v = Trimmed(reason.v)
               ELSE r.classification.reasoning.v
                        \in {UNABLE_TO_DETERMINE, INSUFFICIENT_EVIDENCE}

\* The part of C17 that holds: everything but the reasoning of a result built
\* with a blank reason.
InconclusiveResultButBlankReason ==
    Built("create_inconclusive") =>
        LET r      == resObj.result
            reason == resArgs.v.reason
        IN  /\ r.source = "hybrid"
            /\ r.cost_cents = 0
            /\ r.classification.confidence = 50000
            /\ r.classification.classification_type = "INCONCLUSIVE"
            /\ r.classification.evidence_sources = <<>>
            /\ IF reason.some /\ Trimmed(reason.v) # <<>>
               THEN r.classification.reasoning = Some(Trimmed(reason.v))
               ELSE IF reason.some /\ reason.v # <<>>
               THEN r.classification.reasoning = None
               ELSE r.classification.reasoning.some
                    /\ r.classification.reasoning.v
                          \in {UNABLE_TO_DETERMINE, INSUFFICIENT_EVIDENCE}

\* The processing time and the cost a factory hands to the constructor.
TimePassed(via) ==
    IF via = "create_from_cache"
    THEN OrDefault(resArgs.v.processing_time_ms, 1)
    ELSE resArgs.v.processing_time_ms.v

CostPassed(via) ==
    IF via = "create_from_llm" THEN resArgs.v.cost_cents.v
    ELSE IF via = "create_from_fact_check" THEN OrDefault(resArgs.v.cost_cents, 0)
    ELSE 0

\* C18: building an AnalysisResult through any factory fails, and produces
\* no object, when processing_time_ms or cost_cents is negative; every
\* AnalysisResult that exists has processing_time_ms >= 0, cost_cents >= 0
\* and similar_texts_found >= 0.
C18_NegativeValuesRejected ==
    resObj.called =>
        /\ (TimePassed(resObj.via) < 0 \/ CostPassed(resObj.via) < 0) =>
              resObj.result = Failed
        /\ resObj.result.ok =>
              /\ resObj.result.processing_time_ms >= 0
              /\ resObj.result.cost_cents >= 0
              /\ resObj.result.similar_texts_found >= 0

\* A call with a valid processing time and a negative cost that failed.
C18_Witness ==
    /\ resObj.called
    /\ resObj.via = "create_from_llm"
    /\ resArgs.v.processing_time_ms = Some(1)
    /\ resArgs.v.cost_cents = Some(0 - 1)
    /\ resObj.result = Failed

---------------------------------------------------------------------------
(* Specification of is_expired on a result while time passes.               *)

\* Latest expires_at handed to a factory.
MaxExpiry == 3

InitExpiry ==
    /\ \E x \in {None} \cup {Some(n) : n \in 0..MaxExpiry} :
       \E o \in {"llm", "fact_check"} :
          resArgs = Some([text               |-> SampleText,
                          classification     |-> ClassificationOf(Frac(9, 10)),
                          processing_time_ms |-> Some(1),
                          cost_cents         |-> Some(0),
                          fact_check_sources |-> <<>>,
                          expires_at         |-> x,
                          original_source    |-> o,
                          reason             |-> None])
    /\ clsArgs = None
    /\ clsObj = NotCalled
    /\ resObj = NotCalled
    /\ QueryIdle
    /\ TextIdle
    /\ ConfIdle
    /\ ProcIdle

NextExpiry ==
    \/ CreateFromFactCheck
    \/ CreateFromLlm
    \/ CreateFromCache
    \/ Tick
    \/ IsExpired

SpecExpiry == InitExpiry /\ [][NextExpiry]_vars

\* C19: is_expired() is false at every time for a result with no expires_at;
\* for a result with expires_at = T it is false while the clock is <= T and
\* true once the clock is > T; with a clock that never goes back, a result
\* that was observed expired is observed expired at every later time.
C19_ExpiryNeverReverts ==
    seen.called =>
        LET expires_at == resObj.result.expires_at
        IN  /\ ~expires_at.some => ~seen.value
            /\ expires_at.some /\ seen.at <= expires_at.v => ~seen.value
            /\ expires_at.some /\ seen.at > expires_at.v => seen.value
            /\ seen.before => seen.value

\* A result observed expired twice, the second time later than the first
\* possible one.
C19_Witness ==
    /\ seen.called
    /\ seen.value
    /\ seen.before
    /\ resObj.result.expires_at = Some(MaxExpiry)
    /\ seen.at = MaxExpiry + 2

---------------------------------------------------------------------------
(* Specification of similarity_score on two texts.                          *)

\* Length of the longest text of a pair that is enumerated.
MaxSimLen == 3

SimAlphabet == {"a", "b", "A", " "}

\* 'cat dog' and 'dog bird'
CatDog == <<"c", "a", "t", " ", "d", "o", "g">>

DogBird == <<"d", "o", "g", " ", "b", "i", "r", "d">>

SimInputs == SeqsOf(SimAlphabet, 0, MaxSimLen) \cup {CatDog, DogBird, <<"x">>}

InitSimilarity ==
    /\ text \in SimInputs
    /\ other \in SimInputs
    /\ canon = NotCalled
    /\ digest = NotCalled
    /\ sim = NotCalled
    /\ out = NotCalled
    /\ ConfIdle
    /\ EntityIdle

NextSimilarity == SimilarityScore

SpecSimilarity == InitSimilarity /\ [][NextSimilarity]_vars

\* The canonical-for-hashing form of a non-empty text.
Canonical(t) == normalize(t, TRUE).value

\* The words of a canonical form: its pieces between single spaces.
CanonicalWords(s) ==
    { SubSeq(s, p[1], p[2]) :
        p \in { q \in (1..Len(s)) \X (1..Len(s)) :
                  /\ q[1] <= q[2]
                  /\ \A k \in q[1]..q[2] : s[k] # " "
                  /\ (q[1] = 1 \/ s[q[1] - 1] = " ")
                  /\ (q[2] = Len(s) \/ s[q[2] + 1] = " ") } }

\* The value the claim gives to similarity(a, b) for non-empty a and b.
ClaimedSimilarity(a, b) ==
    LET A == CanonicalWords(Canonical(a))
        B == CanonicalWords(Canonical(b))
    IN  IF Canonical(a) = Canonical(b) THEN Similarity(1, 1)
        ELSE IF A = {} \/ B = {} THEN Similarity(0, 1)
        ELSE Similarity(Cardinality(A \cap B), Cardinality(A \cup B))

\* Two fractions that are the same number.
SameNumber(x, y) == x.num * y.den = y.num * x.den

\* C20 as stated: for all texts a and b, similarity_score(a, a) is 1.0;
\* similarity_score(a, b) is 1.0 when the canonical-for-hashing forms are
\* equal, otherwise the Jaccard ratio of the canonical word sets, and 0.0
\* when either text or either word set is empty; similarity('', 'x') is 0.0
\* and similarity('cat dog', 'dog bird') is 1/3.
C20_SimilarityAsStated ==
    sim.called =>
        /\ text = other => SameNumber(sim.value, Similarity(1, 1))
        /\ text = <<>> \/ other = <<>> => SameNumber(sim.value, Similarity(0, 1))
        /\ text # <<>> /\ other # <<>> =>
              SameNumber(sim.value, ClaimedSimilarity(text, other))
        /\ text = CatDog /\ other = DogBird => SameNumber(sim.value, Similarity(1, 3))

\* C20: similarity_score(a, b) is 0.0 when either text is empty; for
\* non-empty a and b it is 1.0 when the canonical-for-hashing forms are equal
\* (so similarity_score(a, a) is 1.0 for every non-empty a), otherwise 0.0
\* when either canonical word set is empty, otherwise the Jaccard ratio of
\* the word sets; similarity('', 'x') is 0.0 and similarity('cat dog',
\* 'dog bird') is 1/3.
C20_SimilarityOfNonEmpty ==
    sim.called =>
        /\ text = other /\ text # <<>> => SameNumber(sim.value, Similarity(1, 1))
        /\ text = <<>> \/ other = <<>> => SameNumber(sim.value, Similarity(0, 1))
        /\ text # <<>> /\ other # <<>> =>
              SameNumber(sim.value, ClaimedSimilarity(text, other))
        /\ text = CatDog /\ other = DogBird => SameNumber(sim.value, Similarity(1, 3))

\* The example of the claim: 'cat dog' against 'dog bird' gives 1/3.
C20_Witness ==
    /\ sim.called
    /\ text = CatDog
    /\ other = DogBird
    /\ sim.value = Similarity(1, 3)

---------------------------------------------------------------------------
(* TextProcessor.extract_sentences (utils/text_processor.py)                *)

MIN_SENTENCE_LENGTH == 10

\* [.!?] of SENTENCE_SPLIT_PATTERN.
SentenceEnd == {".", "!", "?"}

\* The k-th smallest element of a set of numbers.
Kth(S, k) == CHOOSE x \in S : Cardinality({y \in S : y < x}) = k - 1

\* re.compile('[class]+').split(s): the pieces of s between the maximal runs
\* of class, with an empty piece before a leading and after a trailing run.
SplitRuns(s, class) ==
    LET starts == {i \in 1..Len(s) : s[i] \in class /\ (i = 1 \/ s[i - 1] \notin class)}
        ends   == {i \in 1..Len(s) : s[i] \in class /\ (i = Len(s) \/ s[i + 1] \notin class)}
        n      == Cardinality(starts)
    IN  [k \in 1..(n + 1) |->
            SubSeq(s, IF k = 1 THEN 1 ELSE Kth(ends, k - 1) + 1,
                      IF k = n + 1 THEN Len(s) ELSE Kth(starts, k) - 1)]

\* extract_sentences keeping the sentences longer than min_length only.
extract_sentences_longer(t, min_length) ==
    IF t = <<>> THEN <<>>
    ELSE LET least      == IF min_length.some THEN min_length.v ELSE MIN_SENTENCE_LENGTH
             normalized == normalize(t, FALSE).value
             sentences  == SplitRuns(normalized, SentenceEnd)
             stripped   == [k \in 1..Len(sentences) |-> Strip(sentences[k])]
             Long(sentence) == Len(sentence) > least
         IN  SelectSeq(stripped, Long)

\* TextProcessor.extract_sentences(text, min_length)
extract_sentences(t, min_length) ==
    IF t = <<>> THEN <<>>
    ELSE LET least      == IF min_length.some THEN min_length.v ELSE MIN_SENTENCE_LENGTH
             normalized == normalize(t, FALSE).value
             sentences  == SplitRuns(normalized, SentenceEnd)
             stripped   == [k \in 1..Len(sentences) |-> Strip(sentences[k])]
             Long(sentence) == Len(sentence) >= least
         IN  SelectSeq(stripped, Long)

\* Largest min_length passed explicitly.
MaxMinLength == 2

MinLengths == {None, Some(MIN_SENTENCE_LENGTH)} \cup {Some(m) : m \in 0..MaxMinLength}

\* TextProcessor.extract_sentences(text, min_length)
ExtractSentences ==
    /\ ~out.called
    /\ \E min_length \in MinLengths :
          out' = [called |-> TRUE, op |-> "extract_sentences", min_length |-> min_length,
                  value |-> extract_sentences(text, min_length)]
    /\ UNCHANGED <<text, other, canon, digest, sim>>
    /\ UNCHANGED confVars
    /\ UNCHANGED entityVars

---------------------------------------------------------------------------
(* Specification of extract_sentences.                                      *)

\* Most chunks a text is put together from.
MaxChunks == 4

TenLetters == Rep("a", MIN_SENTENCE_LENGTH)

SentenceChunks ==
    {TenLetters, Rep("b", MIN_SENTENCE_LENGTH - 1) \o <<"!">>, <<"c">>, <<"\t", " ">>,
     <<".">>, <<"?">>}

\* The concatenation of the sequences of a sequence of sequences.
Concat(chunks) ==
    LET total == [k \in 0..Len(chunks) |->
                    Cardinality(UNION {{j} \X (1..Len(chunks[j])) : j \in 1..k})]
        ChunkOf(i) == CHOOSE k \in 1..Len(chunks) : total[k - 1] < i /\ i <= total[k]
    IN  [i \in 1..total[Len(chunks)] |-> chunks[ChunkOf(i)][i - total[ChunkOf(i) - 1]]]

SentenceTexts == {Concat(chunks) : chunks \in SeqsOf(SentenceChunks, 0, MaxChunks)}

InitSentences ==
    /\ text \in SentenceTexts
    /\ other = <<>>
    /\ canon = NotCalled
    /\ digest = NotCalled
    /\ sim = NotCalled
    /\ out = NotCalled
    /\ ConfIdle
    /\ EntityIdle

NextSentences == ExtractSentences

SpecSentences == InitSentences /\ [][NextSentences]_vars

\* The pieces of s between the runs of . ! ?: the pairs <<a, b>> where
\* s[a..b] holds no . ! ? and cannot be extended; an empty piece stands only
\* before a leading run and after a trailing run.
PiecesBetweenRuns(s) ==
    {p \in (1..(Len(s) + 1)) \X (0..Len(s)) :
        /\ p[2] >= p[1] - 1
        /\ \A i \in p[1]..p[2] : s[i] \notin {".", "!", "?"}
        /\ p[1] = 1 \/ s[p[1] - 1] \in {".", "!", "?"}
        /\ p[2] = Len(s) \/ s[p[2] + 1] \in {".", "!", "?"}
        /\ p[2] = p[1] - 1 => p[1] = 1 \/ p[2] = Len(s)}

\* What the claim says extract_sentences(t, least) returns for a non-empty t.
ClaimedSentences(t, least) ==
    LET s     == normalize(t, FALSE).value
        long  == {p \in PiecesBetweenRuns(s) : Len(Strip(SubSeq(s, p[1], p[2]))) >= least}
        first == {p[1] : p \in long}
        Piece(a) == CHOOSE p \in long : p[1] = a
    IN  [k \in 1..Cardinality(long) |->
            Strip(SubSeq(s, Kth(first, k), Piece(Kth(first, k))[2]))]

\* C21: extract_sentences(text, min_length) returns, in the order of the
\* text, exactly the trimmed pieces between the runs of . ! ? of the display
\* form whose trimmed length is at least min_length (10 when none is given);
\* no sentence returned holds . ! or ?, none is shorter than min_length.
C21_SentencesOfText ==
    out.called /\ out.op = "extract_sentences" =>
        LET least == IF out.min_length.some THEN out.min_length.v ELSE 10
        IN  /\ text # <<>> => out.value = ClaimedSentences(text, least)
            /\ text = <<>> => out.value = <<>>
            /\ \A k \in 1..Len(out.value) :
                  /\ Len(out.value[k]) >= least
                  /\ \A i \in 1..Len(out.value[k]) : out.value[k][i] \notin {".", "!", "?"}

\* Two sentences are returned in their order and a shorter piece is left out,
\* under the default min_length.
C21_Witness ==
    /\ out.called
    /\ out.op = "extract_sentences"
    /\ out.min_length = None
    /\ text = TenLetters \o <<".">> \o Rep("b", 9) \o <<"!">> \o TenLetters
    /\ out.value = <<TenLetters, TenLetters>>

---------------------------------------------------------------------------
(* TextProcessor.extract_keywords_basic (utils/text_processor.py)           *)

Digits == {"0", "1", "2", "3", "4", "5", "6", "7", "8", "9"}

\* The regex class \w (for the characters of the model).
WordChars ==
    LowerLetters \cup UpperLetters \cup Digits
        \cup {"_", "a_acute", "A_acute", "e_acute", "E_acute", "IOTA_DIALYTIKA",
              "iota_dialytika", "iota_dialytika_tonos"}

\* s with every character of class that is directly followed by a character
\* of class removed: each maximal run of class keeps its last character, as
\* re.sub(r'([class]){2,}', r'\1', s) leaves the last repetition of the group.
LastOfRuns(s, class) ==
    Kept([i \in 1..Len(s) |->
            [ch |-> s[i], keep |-> ~(s[i] \in class /\ i < Len(s) /\ s[i + 1] \in class)]])

\* The index of the first character after position i that is not whitespace,
\* Len(s) + 1 when there is none.
NextVisible(s, i) ==
    IF \E j \in (i + 1)..Len(s) : s[j] \notin Spaces
    THEN CHOOSE j \in (i + 1)..Len(s) :
             s[j] \notin Spaces /\ \A k \in (i + 1)..(j - 1) : s[k] \in Spaces
    ELSE Len(s) + 1

\* The index of the last character before position i that is not whitespace,
\* 0 when there is none.
PreviousVisible(s, i) ==
    IF \E j \in 1..(i - 1) : s[j] \notin Spaces
    THEN CHOOSE j \in 1..(i - 1) :
             s[j] \notin Spaces /\ \A k \in (j + 1)..(i - 1) : s[k] \in Spaces
    ELSE 0

\* re.sub(r'\s+([.!?,:;])', r'\1', s)
CloseUpBeforePunctuation(s) ==
    Kept([i \in 1..Len(s) |->
            [ch   |-> s[i],
             keep |-> ~(/\ s[i] \in Spaces
                        /\ NextVisible(s, i) <= Len(s)
                        /\ s[IF NextVisible(s, i) <= Len(s) THEN NextVisible(s, i) ELSE i]
                               \in TerminalPunctuation)]])

\* Whether a match of ([.!?])\s*([A-Z]) starts at position i of s.
EndsBeforeCapital(s, i) ==
    /\ i >= 1
    /\ i <= Len(s)
    /\ s[IF i >= 1 /\ i <= Len(s) THEN i ELSE 1] \in SentenceEnd
    /\ NextVisible(s, i) <= Len(s)
    /\ s[IF NextVisible(s, i) <= Len(s) THEN NextVisible(s, i) ELSE 1] \in UpperLetters

\* re.sub(r'([.!?])\s*([A-Z])', r'\1 \2', s)
\* Every character is followed by a place for the space of the replacement;
\* the whitespace a match spans goes.
SpaceAfterSentenceEnd(s) ==
    Kept([m \in 1..(2 * Len(s)) |->
            LET i == (m + 1) \div 2
            IN  IF m % 2 = 1
                THEN [ch   |-> s[i],
                      keep |-> ~(s[i] \in Spaces
                                    /\ EndsBeforeCapital(s, PreviousVisible(s, i)))]
                ELSE [ch |-> " ", keep |-> EndsBeforeCapital(s, i)]])

\* TextProcessor.clean_for_analysis(text)
clean_for_analysis(t) ==
    IF t = <<>> THEN <<>>
    ELSE LET normalized == normalize(t, FALSE).value
             Allowed(c) == c \in WordChars \cup Spaces \cup TerminalPunctuation \cup {"-"}
             cleaned    == SelectSeq(normalized, Allowed)
             ends       == LastOfRuns(cleaned, SentenceEnd)
             commas     == LastOfRuns(ends, {",", ";", ":"})
             closed     == CloseUpBeforePunctuation(commas)
             spaced     == SpaceAfterSentenceEnd(closed)
         IN  Strip(CollapseWhitespace(spaced))

\* s.split(): the words of s, its longest pieces without whitespace, in order.
Split(s) ==
    LET starts == {i \in 1..Len(s) : s[i] \notin Spaces /\ (i = 1 \/ s[i - 1] \in Spaces)}
        ends   == {i \in 1..Len(s) : s[i] \notin Spaces /\ (i = Len(s) \/ s[i + 1] \in Spaces)}
    IN  [k \in 1..Cardinality(starts) |-> SubSeq(s, Kth(starts, k), Kth(ends, k))]

\* The stop_words of extract_keywords_basic.  The source file holds the
\* Portuguese "nao" with tilde as the four characters n, A-tilde, pound, o.
stop_words ==
    {<<"a">>, <<"a", "n">>, <<"a", "n", "d">>, <<"a", "r", "e">>,
     <<"a", "s">>, <<"a", "t">>, <<"b", "e">>, <<"b", "y">>,
     <<"f", "o", "r">>, <<"f", "r", "o", "m">>, <<"h", "a", "s">>,
     <<"h", "e">>, <<"i", "n">>, <<"i", "s">>, <<"i", "t">>,
     <<"i", "t", "s">>, <<"o", "f">>, <<"o", "n">>, <<"t", "h", "a", "t">>,
     <<"t", "h", "e">>, <<"t", "o">>, <<"w", "a", "s">>,
     <<"w", "i", "l", "l">>, <<"w", "i", "t", "h">>, <<"t", "h", "i", "s">>,
     <<"t", "h", "e", "s", "e">>, <<"t", "h", "o", "s", "e">>,
     <<"t", "h", "e", "y">>, <<"o">>, <<"a">>, <<"e">>, <<"o", "s">>,
     <<"a", "s">>, <<"u", "m">>, <<"u", "m", "a">>, <<"d", "e">>,
     <<"d", "o">>, <<"d", "a">>, <<"d", "o", "s">>, <<"d", "a", "s">>,
     <<"e", "m">>, <<"n", "o">>, <<"n", "a">>, <<"n", "o", "s">>,
     <<"n", "a", "s">>, <<"p", "a", "r", "a">>, <<"p", "o", "r">>,
     <<"c", "o", "m">>, <<"s", "e", "m">>, <<"q", "u", "e">>, <<"s", "e">>,
     <<"n", "A_TILDE", "POUND", "o">>, <<"m", "a", "i", "s">>,
     <<"m", "u", "i", "t", "o">>}

\* The clean_word of every word of the cleaned text, in order.
clean_words(t) ==
    LET words == Split(Lower(clean_for_analysis(t)))
        IsWordChar(c) == c \in WordChars
    IN  [k \in 1..Len(words) |-> SelectSeq(words[k], IsWordChar)]

\* The clean words that are counted, in order.
counted_words(t) ==
    LET Counted(clean_word) == Len(clean_word) >= 3 /\ clean_word \notin stop_words
    IN  SelectSeq(clean_words(t), Counted)

\* extract_keywords_basic without the sort: the keys of word_freq in the
\* order of their insertion.
extract_keywords_basic_unsorted(t, max_keywords) ==
    IF t = <<>> THEN <<>>
    ELSE LET keys == FirstSeen(counted_words(t))
         IN  SubSeq(keys, 1, IF max_keywords < Len(keys) THEN max_keywords ELSE Len(keys))

\* TextProcessor.extract_keywords_basic(text, max_keywords), for a
\* max_keywords >= 0.  sorted(..., reverse=True) is stable: the keys of equal
\* frequency stay in the order of their insertion into word_freq.
extract_keywords_basic(t, max_keywords) ==
    IF t = <<>> THEN <<>>
    ELSE LET counted == counted_words(t)
             keys    == FirstSeen(counted)
             Freq(i) == Cardinality({k \in 1..Len(counted) : counted[k] = keys[i]})
             Before(i) == {j \in 1..Len(keys) :
                              Freq(j) > Freq(i) \/ (Freq(j) = Freq(i) /\ j < i)}
             sorted_words == [r \in 1..Len(keys) |->
                                keys[CHOOSE i \in 1..Len(keys) :
                                         Cardinality(Before(i)) = r - 1]]
         IN  SubSeq(sorted_words, 1,
                    IF max_keywords < Len(keys) THEN max_keywords ELSE Len(keys))

DEFAULT_MAX_KEYWORDS == 20

\* Largest max_keywords passed explicitly.
MaxAsked == 2

\* TextProcessor.extract_keywords_basic(text, max_keywords)
ExtractKeywordsBasic ==
    /\ ~out.called
    /\ \E max_keywords \in (0..MaxAsked) \cup {DEFAULT_MAX_KEYWORDS} :
          out' = [called |-> TRUE, op |-> "extract_keywords_basic",
                  max_keywords |-> max_keywords,
                  value |-> extract_keywords_basic(text, max_keywords)]
    /\ UNCHANGED <<text, other, canon, digest, sim>>
    /\ UNCHANGED confVars
    /\ UNCHANGED entityVars

---------------------------------------------------------------------------
(* Specification of extract_keywords_basic.                                 *)

\* Most words of a text.
MaxTokens == 3

KeywordChunks ==
    {word \o separator :
        word \in {<<"c", "a", "t">>, <<"D", "o", "g">>, <<"t", "h", "e">>},
        separator \in {<<" ">>, <<".">>, <<" ", ",">>, <<"SQUOTE">>}}

KeywordTexts == {Concat(chunks) : chunks \in SeqsOf(KeywordChunks, 0, MaxTokens)}

InitKeywords ==
    /\ text \in KeywordTexts
    /\ other = <<>>
    /\ canon = NotCalled
    /\ digest = NotCalled
    /\ sim = NotCalled
    /\ out = NotCalled
    /\ ConfIdle
    /\ EntityIdle

NextKeywords == ExtractKeywordsBasic

SpecKeywords == InitKeywords /\ [][NextKeywords]_vars

\* C22: extract_keywords_basic(text, max_keywords) returns at most
\* max_keywords tokens of the text, all distinct and lowercase, none shorter
\* than 3 characters, none a stop word, by falling frequency in the text and,
\* at equal frequency, by their first occurrence in the text.
C22_KeywordsByFrequency ==
    out.called /\ out.op = "extract_keywords_basic" =>
        LET keywords == out.value
            tokens   == clean_words(text)
            Frequency(w) == Cardinality({k \in 1..Len(tokens) : tokens[k] = w})
            FirstOccurrence(w) ==
                CHOOSE k \in 1..Len(tokens) :
                    tokens[k] = w /\ \A j \in 1..(k - 1) : tokens[j] # w
        IN  /\ Len(keywords) <= out.max_keywords
            /\ \A i \in 1..Len(keywords) :
                  /\ Frequency(keywords[i]) >= 1
                  /\ Lower(keywords[i]) = keywords[i]
                  /\ Len(keywords[i]) >= 3
                  /\ keywords[i] \notin stop_words
                  /\ \A j \in (i + 1)..Len(keywords) :
                        /\ keywords[i] # keywords[j]
                        /\ Frequency(keywords[i]) >= Frequency(keywords[j])
                        /\ Frequency(keywords[i]) = Frequency(keywords[j])
                              => FirstOccurrence(keywords[i]) < FirstOccurrence(keywords[j])

\* "Dog cat cat ": the more frequent cat comes before dog, both lowercase.
C22_Witness ==
    /\ out.called
    /\ out.op = "extract_keywords_basic"
    /\ text = <<"D", "o", "g", " ", "c", "a", "t", " ", "c", "a", "t", " ">>
    /\ out.max_keywords = DEFAULT_MAX_KEYWORDS
    /\ out.value = << <<"c", "a", "t">>, <<"d", "o", "g">> >>

---------------------------------------------------------------------------
(* Specification of Text.create on the language code.                       *)

\* Longest language code handed to Text.create.
MaxLanguageLen == 6

LanguageInputs ==
    {None, Some(<<"e", "n", "-", "U", "S">>), Some(<<"e", "n", "\n">>)}
        \cup {Some(v) : v \in SeqsOf({"e", "N", "-"}, 0, MaxLanguageLen)}

InitTextLanguage ==
    /\ textArgs \in [content    : {Rep("a", TEXT_MIN_LENGTH), Rep("a", TEXT_MIN_LENGTH - 1)},
                     source_url : {None},
                     language   : LanguageInputs,
                     keywords   : {None}]
    /\ textObj = NotCalled
    /\ ResultIdle
    /\ ConfIdle
    /\ ProcIdle

NextTextLanguage == TextCreate

SpecTextLanguage == InitTextLanguage /\ [][NextTextLanguage]_vars

\* C23: Text.create with a content it accepts and a language code that is
\* missing or is not two lowercase letters, optionally followed by a hyphen
\* and two uppercase letters, whatever its length, gives a Text whose
\* language is 'pt'.
C23_InvalidLanguageFallsBack ==
    textObj.called /\ Len(textArgs.content) >= 10 =>
        LET language == textArgs.language
            Valid(v) ==
                \/ Len(v) = 2 /\ v[1] \in LowerLetters /\ v[2] \in LowerLetters
                \/ /\ Len(v) = 5
                   /\ v[1] \in LowerLetters /\ v[2] \in LowerLetters /\ v[3] = "-"
                   /\ v[4] \in UpperLetters /\ v[5] \in UpperLetters
        IN  /\ textObj.result.ok
            /\ ~language.some \/ ~Valid(language.v) =>
                   textObj.result.language = <<"p", "t">>

\* What holds: the fallback is reached by the codes of 2 to 5 characters, by
\* the empty code and by the missing code; every other code fails the call.
InvalidLanguageOfFieldLengthFallsBack ==
    textObj.called /\ Len(textArgs.content) >= 10 =>
        LET language == textArgs.language
            short    == language.some /\ Len(language.v) = 1
            long     == language.some /\ Len(language.v) > 5
        IN  /\ textObj.result.ok <=> ~short /\ ~long
            /\ textObj.result.ok /\ (~language.some \/ ~MatchesLanguageCode(language.v))
                   => textObj.result.language = <<"p", "t">>

---------------------------------------------------------------------------
(* TextHash(value=...) (value_objects/text_hash.py)                         *)

HASH_LENGTH == 64

HexDigits == <<"0", "1", "2", "3", "4", "5", "6", "7", "8", "9",
               "a", "b", "c", "d", "e", "f">>

\* [a-f0-9]
HexChars == {HexDigits[i] : i \in 1..Len(HexDigits)}

\* re.match(r"^[a-f0-9]{64}$", v) and the pattern of the field
MatchesHash(v) == Len(v) = HASH_LENGTH /\ \A i \in 1..Len(v) : v[i] \in HexChars

\* TextHash(value=value) under a Config without str_strip_whitespace.
TextHashNew_unstripped(value) ==
    IF Len(value) # HASH_LENGTH \/ ~MatchesHash(value) THEN Failed
    ELSE IF ~MatchesHash(Lower(value)) THEN Failed
    ELSE [ok |-> TRUE, value |-> Lower(value)]

\* TextHash(value=value): str_strip_whitespace of the Config strips the
\* string, then the constraints of the field (min_length, max_length,
\* pattern) are checked, then validate_hash_format runs.
TextHashNew(value) ==
    LET stripped == Strip(value)
    IN  IF Len(stripped) # HASH_LENGTH \/ ~MatchesHash(stripped) THEN Failed
        ELSE IF ~MatchesHash(Lower(stripped)) THEN Failed
        ELSE [ok |-> TRUE, value |-> Lower(stripped)]

\* The str that hexdigest() gives for a digest: 64 hexadecimal digits in
\* lowercase.  Which digits they are is not computed; two digests are
\* compared as Sha256 values.
hexdigest(d) == [i \in 1..HASH_LENGTH |-> HexDigits[((Len(d[2]) + i) % 16) + 1]]

\* TextHash.from_text(text), the TextHash it builds from the hexdigest.
TextHash_from_text(t) ==
    IF from_text(t).raised THEN Failed
    ELSE TextHashNew(hexdigest(from_text(t).value))

\* One of TextHash(value=text), TextHash.from_text(text) and
\* TextProcessor.generate_hash(text).
TextHashCall(op, result) ==
    /\ ~out.called
    /\ out' = [called |-> TRUE, op |-> op, result |-> result]
    /\ UNCHANGED <<text, other, canon, digest, sim>>
    /\ UNCHANGED confVars
    /\ UNCHANGED entityVars

TextHashCreate == TextHashCall("TextHash", TextHashNew(text))

TextHashFromText == TextHashCall("from_text", TextHash_from_text(text))

GenerateHashString ==
    TextHashCall("generate_hash",
                 IF generate_hash(text).raised THEN Failed
                 ELSE [ok |-> TRUE, value |-> hexdigest(generate_hash(text).value)])

---------------------------------------------------------------------------
(* Specification of TextHash.                                               *)

\* By how much the length of a supplied string misses 64.
HashSlack == 1

\* c * n with the k-th character replaced by d.
OneOff(c, n, k, d) == [i \in 1..n |-> IF i = k THEN d ELSE c]

HashBodies ==
    {OneOff(c, n, k, d) :
        c \in {"a", "0"},
        n \in (HASH_LENGTH - HashSlack)..(HASH_LENGTH + HashSlack),
        k \in {1, HASH_LENGTH \div 2, HASH_LENGTH - HashSlack},
        d \in {"f", "9", "g", "A", "-", "\n"}}

HashPads == {<<>>, <<" ">>, <<"\n">>}

HashInputs ==
    {before \o body \o after : before \in HashPads, body \in HashBodies, after \in HashPads}
        \cup {<<>>, <<" ">>, <<"a">>, <<"A", " ", "b", "!", "!">>}

InitTextHash ==
    /\ text \in HashInputs
    /\ other = <<>>
    /\ canon = NotCalled
    /\ digest = NotCalled
    /\ sim = NotCalled
    /\ out = NotCalled
    /\ ConfIdle
    /\ EntityIdle

NextTextHash ==
    \/ TextHashCreate
    \/ TextHashFromText
    \/ GenerateHashString

SpecTextHash == InitTextHash /\ [][NextTextHash]_vars

\* A str of exactly 64 characters from 0-9 and a-f.
IsHashForm(v) ==
    /\ Len(v) = 64
    /\ \A i \in 1..Len(v) :
          v[i] \in {"0", "1", "2", "3", "4", "5", "6", "7", "8", "9",
                    "a", "b", "c", "d", "e", "f"}

\* C24 as stated: every TextHash has a value of 64 characters from 0-9 and
\* a-f; TextHash(value=s) fails for every s of another length or holding
\* another character; from_text and generate_hash give strings of this form.
C24_HashFormAsStated ==
    out.called =>
        /\ out.result.ok => IsHashForm(out.result.value)
        /\ out.op = "TextHash" /\ ~IsHashForm(text) => ~out.result.ok

\* C24, amended: every TextHash has a value of 64 characters from 0-9 and
\* a-f; TextHash(value=s) gives an object exactly when s without its leading
\* and trailing whitespace has this form, and the object holds the stripped
\* string; from_text and generate_hash give strings of this form whenever
\* they return.
C24_HashForm ==
    out.called =>
        /\ out.result.ok => IsHashForm(out.result.value)
        /\ out.op = "TextHash" =>
              /\ out.result.ok <=> IsHashForm(Strip(text))
              /\ out.result.ok => out.result.value = Strip(text)
        /\ out.op \in {"from_text", "generate_hash"} => (out.result.ok <=> text # <<>>)

\* A string of 64 hexadecimal digits after a space, 65 characters, is taken.
C24_Witness ==
    /\ out.called
    /\ out.op = "TextHash"
    /\ text = <<" ", "f">> \o Rep("a", 63)
    /\ out.result = [ok |-> TRUE, value |-> <<"f">> \o Rep("a", 63)]

---------------------------------------------------------------------------
(* ConfidenceScore.get_confidence_level and is_high_confidence              *)

\* ConfidenceScore.is_high_confidence(threshold), on self.value
ConfidenceScore_is_high_confidence(value, threshold) == value >= threshold

\* The default threshold of is_high_confidence: 0.8.
HIGH_CONFIDENCE_THRESHOLD == Frac(8, 10)

\* get_confidence_level with the bounds themselves in the band below.
get_confidence_level_strict(value) ==
    IF value > Frac(8, 10) THEN "HIGH"
    ELSE IF value > Frac(6, 10) THEN "MEDIUM"
    ELSE IF value > Frac(2, 10) THEN "LOW"
    ELSE "VERY_LOW"

\* ConfidenceScore.get_confidence_level(), on self.value
get_confidence_level(value) ==
    IF value >= Frac(8, 10) THEN "HIGH"
    ELSE IF value >= Frac(6, 10) THEN "MEDIUM"
    ELSE IF value >= Frac(2, 10) THEN "LOW"
    ELSE "VERY_LOW"

\* score.get_confidence_level() and score.is_high_confidence() on the
\* ConfidenceScore that was built.
GetConfidenceLevel ==
    /\ score.state = "ok"
    /\ ~out.called
    /\ out' = [called |-> TRUE, op |-> "get_confidence_level",
               level |-> get_confidence_level(score.value),
               high  |-> ConfidenceScore_is_high_confidence(score.value,
                                                            HIGH_CONFIDENCE_THRESHOLD)]
    /\ UNCHANGED <<text, other, canon, digest, sim>>
    /\ UNCHANGED confVars
    /\ UNCHANGED entityVars

---------------------------------------------------------------------------
(* Specification of the confidence levels.                                  *)

InitLevels ==
    /\ raw \in RawValues
    /\ score = NoScore
    /\ ctype = "NONE"
    /\ ProcIdle
    /\ EntityIdle

NextLevels ==
    \/ ConfidenceScoreNew
    \/ FromConfidence
    \/ GetConfidenceLevel

SpecLevels == InitLevels /\ [][NextLevels]_vars

\* C26: get_confidence_level() is HIGH exactly for value >= 0.8, MEDIUM for
\* 0.6 <= value < 0.8, LOW for 0.2 <= value < 0.6 and VERY_LOW for
\* value < 0.2; so it is HIGH exactly when from_confidence gives RELIABLE,
\* VERY_LOW exactly when it gives FAKE, and is_high_confidence() with the
\* default threshold holds exactly for HIGH.
C26_ConfidenceLevels ==
    out.called /\ out.op = "get_confidence_level" =>
        LET value == score.value
        IN  /\ out.level = "HIGH" <=> 10 * value >= 8 * RAW_SCALE
            /\ out.level = "MEDIUM" <=> 10 * value >= 6 * RAW_SCALE /\ 10 * value < 8 * RAW_SCALE
            /\ out.level = "LOW" <=> 10 * value >= 2 * RAW_SCALE /\ 10 * value < 6 * RAW_SCALE
            /\ out.level = "VERY_LOW" <=> 10 * value < 2 * RAW_SCALE
            /\ out.level \in {"HIGH", "MEDIUM", "LOW", "VERY_LOW"}
            /\ out.high <=> out.level = "HIGH"
            /\ ctype # "NONE" =>
                  /\ out.level = "HIGH" <=> ctype = "RELIABLE"
                  /\ out.level = "VERY_LOW" <=> ctype = "FAKE"

\* The score 0.8, rounded from 0.79995 or above, is HIGH, RELIABLE and of
\* high confidence.
C26_Witness ==
    /\ out.called
    /\ out.op = "get_confidence_level"
    /\ raw < Frac(8, 10)
    /\ score.value = Frac(8, 10)
    /\ out.level = "HIGH"
    /\ out.high
    /\ ctype = "RELIABLE"

---------------------------------------------------------------------------
(* The derived operations of AnalysisResult (entities/analysis_result.py)   *)

\* AnalysisResult.is_high_confidence(threshold)
is_high_confidence(self, threshold) ==
    ConfidenceScore_is_high_confidence(self.classification.confidence, threshold)

\* AnalysisResult.is_fast_response(threshold_ms)
is_fast_response(self, threshold_ms) == self.processing_time_ms <= threshold_ms

\* AnalysisResult.is_cost_effective(threshold_cents)
is_cost_effective(self, threshold_cents) == self.cost_cents <= threshold_cents

\* The defaults of threshold_ms and threshold_cents.
FAST_RESPONSE_MS == 2000

COST_EFFECTIVE_CENTS == 10

\* Classification.to_dict(): Config.use_enum_values = True makes pydantic
\* store classification_type as the str of the enum member, and a str has
\* neither .value nor .get_emoji(): the first entry of the dict raises
\* AttributeError.
Classification_to_dict(self) == Raised

\* AnalysisResult.to_dict(): the entries are evaluated in order; the second,
\* self.classification.to_dict(), raises.
to_dict(self) ==
    IF Classification_to_dict(self.classification).raised THEN Raised
    ELSE Returned(self)

\* A derived operation that also writes: is_expired dropping the deadline it
\* found passed.
self_after_forgetting(op, self, utcnow) ==
    IF op = "is_expired" /\ is_expired(self, utcnow)
    THEN [self EXCEPT !.expires_at = None]
    ELSE self

\* The object after a call of a derived operation.  The seven bodies are
\* return statements over reads of self, of its Text and Classification and
\* of the clock; none assigns to a field.
self_after(op, self, utcnow) == self

\* Most calls counted on one result.
MaxCalls == 3

\* result.op(): out keeps the latest call, what it gave, how many calls were
\* made and the result as it was before the first of them.
DerivedOperation(op, value) ==
    /\ resObj.called
    /\ resObj.result.ok
    /\ IF out.called THEN out.calls < MaxCalls ELSE TRUE
    /\ out' = [called |-> TRUE, op |-> op, value |-> value,
               calls  |-> IF out.called THEN out.calls + 1 ELSE 1,
               built  |-> IF out.called THEN out.built ELSE resObj.result]
    /\ resObj' = [resObj EXCEPT !.result = self_after(op, resObj.result, now)]
    /\ UNCHANGED <<clsArgs, clsObj, resArgs>>
    /\ UNCHANGED queryVars
    /\ UNCHANGED <<text, other, canon, digest, sim>>
    /\ UNCHANGED textVars
    /\ UNCHANGED confVars

IsCached == DerivedOperation("is_cached", is_cached(resObj.result))

IsExpiredNow == DerivedOperation("is_expired", is_expired(resObj.result, now))

IsHighConfidence ==
    DerivedOperation("is_high_confidence",
                     is_high_confidence(resObj.result, HIGH_CONFIDENCE_THRESHOLD))

IsFastResponse ==
    DerivedOperation("is_fast_response", is_fast_response(resObj.result, FAST_RESPONSE_MS))

IsCostEffective ==
    DerivedOperation("is_cost_effective",
                     is_cost_effective(resObj.result, COST_EFFECTIVE_CENTS))

PerformanceScore ==
    DerivedOperation("get_performance_score", get_performance_score(resObj.result))

ToDict == DerivedOperation("to_dict", to_dict(resObj.result))

---------------------------------------------------------------------------
(* Specification of the derived operations on a result.                     *)

InitDerived ==
    /\ \E x \in {None} \cup {Some(n) : n \in 0..MaxExpiry} :
       \E o \in {"llm", "fact_check"} :
       \E t \in {1, FAST_RESPONSE_MS, 5000} :
       \E k \in {0, COST_EFFECTIVE_CENTS, 50} :
       \E c \in {Frac(1, 10), Frac(8, 10)} :
          resArgs = Some([text               |-> SampleText,
                          classification     |-> ClassificationOf(c),
                          processing_time_ms |-> Some(t),
                          cost_cents         |-> Some(k),
                          fact_check_sources |-> <<>>,
                          expires_at         |-> x,
                          original_source    |-> o,
                          reason             |-> None])
    /\ clsArgs = None
    /\ clsObj = NotCalled
    /\ resObj = NotCalled
    /\ QueryIdle
    /\ TextIdle
    /\ ConfIdle
    /\ ProcIdle

NextDerived ==
    \/ CreateFromFactCheck
    \/ CreateFromLlm
    \/ CreateFromCache
    \/ Tick
    \/ IsCached
    \/ IsExpiredNow
    \/ IsHighConfidence
    \/ IsFastResponse
    \/ IsCostEffective
    \/ PerformanceScore
    \/ ToDict

SpecDerived == InitDerived /\ [][NextDerived]_vars

---------------------------------------------------------------------------
(* Specification of the fingerprint of a Text against generate_hash.        *)

\* Most characters added after a content.
MaxSuffix == 2

BreakingNews == <<"B", "r", "e", "a", "k", "i", "n", "g", " ", "n", "e", "w", "s">>

FingerprintContents ==
    {base \o suffix :
        base \in {BreakingNews, Rep("a", TEXT_MIN_LENGTH)},
        suffix \in SeqsOf({"!", ".", "SOH", " "}, 0, MaxSuffix)}

InitFingerprint ==
    /\ text \in FingerprintContents
    /\ other \in FingerprintContents
    /\ canon = NotCalled
    /\ digest = NotCalled
    /\ sim = NotCalled
    /\ out = NotCalled
    /\ textArgs = [content |-> text, source_url |-> None, language |-> None,
                   keywords |-> None]
    /\ textObj = NotCalled
    /\ ResultIdle
    /\ ConfIdle

NextFingerprint ==
    \/ TextCreate
    \/ GenerateHash

SpecFingerprint == InitFingerprint /\ [][NextFingerprint]_vars

\* The characters of s without the control characters, and with each run of
\* . , ; : ! ? cut down to its first character.
WithoutControl(s) ==
    LET Visible(c) == c \notin {"SOH"}
    IN  SelectSeq(s, Visible)

WithoutRepeats(s) == FirstOfRuns(s, {".", ",", ";", ":", "!", "?"})

\* C27: for every content Text.create accepts, the text_hash of the Text is
\* generate_hash(content); two contents that differ only by repeated
\* terminal punctuation or by control characters give Texts of equal
\* text_hash, which therefore compare equal.
C27_FingerprintAgrees ==
    LET second == create(other, None, None, None)
        alike  == \/ WithoutRepeats(text) = WithoutRepeats(other)
                  \/ WithoutControl(text) = WithoutControl(other)
    IN  /\ (textObj.called /\ textObj.result.ok /\ digest.called)
               => (~digest.a.raised /\ textObj.result.text_hash = digest.a.value)
        /\ (textObj.called /\ textObj.result.ok /\ second.ok /\ alike)
               => textObj.result.text_hash = second.text_hash

\* What holds: the two hashes agree on the contents without a run of
\* terminal punctuation.
FingerprintAgreesWithoutRepeats ==
    textObj.called /\ textObj.result.ok /\ digest.called
            /\ WithoutRepeats(text) = text =>
        /\ ~digest.a.raised
        /\ textObj.result.text_hash = digest.a.value

---------------------------------------------------------------------------
(* Specification of normalize applied to its own result.                    *)

\* TextProcessor.normalize(n, for_hashing) and generate_hash(n) on the
\* non-empty result n of normalize(text, for_hashing).
NormalizeAgain ==
    /\ canon.called
    /\ ~canon.a.raised
    /\ canon.a.value # <<>>
    /\ ~out.called
    /\ out' = [called |-> TRUE, op |-> "normalize",
               value  |-> normalize(canon.a.value, canon.for_hashing),
               hash   |-> generate_hash(canon.a.value)]
    /\ UNCHANGED <<text, other, canon, digest, sim>>
    /\ UNCHANGED confVars
    /\ UNCHANGED entityVars

\* Longest text normalized twice.
MaxIdemLen == 3

IdemAlphabet == {"a", "B", "IOTA_DIALYTIKA", "ACUTE", " ", "\t", "SOH", "!", "?", "LDQUO"}

InitIdempotent ==
    /\ text \in SeqsOf(IdemAlphabet, 0, MaxIdemLen)
    /\ other = <<>>
    /\ canon = NotCalled
    /\ digest = NotCalled
    /\ sim = NotCalled
    /\ out = NotCalled
    /\ ConfIdle
    /\ EntityIdle

NextIdempotent ==
    \/ Normalize(TRUE)
    \/ Normalize(FALSE)
    \/ GenerateHash
    \/ NormalizeAgain

SpecIdempotent == InitIdempotent /\ [][NextIdempotent]_vars

\* C28: for every text t whose canonical form n = normalize(t, True) is not
\* empty, normalize(n, True) = n and generate_hash(n) = generate_hash(t);
\* likewise normalize(normalize(t, False), False) = normalize(t, False).
C28_CanonicalizationIdempotent ==
    out.called /\ out.op = "normalize" =>
        /\ ~out.value.raised
        /\ out.value.value = canon.a.value
        /\ canon.for_hashing /\ digest.called => out.hash = digest.a

\* What holds: the display form is a fixed point of normalize(., False).
DisplayFormIdempotent ==
    out.called /\ out.op = "normalize" /\ ~canon.for_hashing =>
        /\ ~out.value.raised
        /\ out.value.value = canon.a.value

\* What holds: the hashing form is a fixed point for the texts in which no
\* capital without a composed form is followed by the accent.
HashingFormIdempotentWithoutAccent ==
    out.called /\ out.op = "normalize"
            /\ (\A i \in 1..Len(text) : text[i] # "ACUTE") =>
        /\ ~out.value.raised
        /\ out.value.value = canon.a.value
        /\ canon.for_hashing /\ digest.called => out.hash = digest.a

---------------------------------------------------------------------------
(* User (entities/user.py), with ApiKey (value_objects/api_key.py)          *)

\* allowed_services of ApiKey.validate_service_name
allowed_services == {"google_fact_check", "groq_llm", "openrouter", "custom"}

\* The fields of a new User that are preferences, at their defaults.
DefaultPreferences ==
    [analysis_mode        |-> "automatic",
     ui_theme             |-> "system",
     auto_analyze         |-> FALSE,
     cache_enabled        |-> TRUE,
     cache_duration_days  |-> 30,
     language_preference  |-> <<"p", "t">>,
     confidence_threshold |-> Frac(8, 10)]

\* User.validate_api_keys(v): the first key of every service, in order.
validate_api_keys(v) ==
    IF v = <<>> THEN <<>>
    ELSE Kept([i \in 1..Len(v) |->
                 [ch   |-> v[i],
                  keep |-> \A j \in 1..(i - 1) : v[j].service_name # v[i].service_name]])

\* User(user_id=..., api_keys=..., total_analyses=..., total_cost_cents=...)
\* with a valid user_id: total_analyses and total_cost_cents are Field(ge=0).
UserNew(api_keys, total_analyses, total_cost_cents, utcnow) ==
    IF total_analyses < 0 \/ total_cost_cents < 0 THEN Failed
    ELSE [ok               |-> TRUE,
          api_keys         |-> validate_api_keys(api_keys),
          preferences      |-> DefaultPreferences,
          total_analyses   |-> total_analyses,
          total_cost_cents |-> total_cost_cents,
          last_active_at   |-> utcnow]

\* add_api_key appending without removing the key of the same service.
add_api_key_appending(self, api_key) ==
    [self EXCEPT !.api_keys = Append(self.api_keys, api_key)]

\* User.add_api_key(api_key): self after the call.
add_api_key(self, api_key) ==
    LET Other(key) == key.service_name # api_key.service_name
    IN  [self EXCEPT !.api_keys = Append(SelectSeq(self.api_keys, Other), api_key)]

\* User.remove_api_key(service_name): self after the call and the value
\* returned.
remove_api_key(self, service_name) ==
    LET Other(key) == key.service_name # service_name
        kept == SelectSeq(self.api_keys, Other)
    IN  [self |-> [self EXCEPT !.api_keys = kept], value |-> Len(kept) < Len(self.api_keys)]

\* User.get_api_key(service_name)
get_api_key(self, service_name) ==
    LET Same(key) == key.service_name = service_name
        found == SelectSeq(self.api_keys, Same)
    IN  IF found = <<>> THEN None ELSE Some(found[1])

\* User.has_api_key(service_name)
has_api_key(self, service_name) ==
    \E i \in 1..Len(self.api_keys) : self.api_keys[i].service_name = service_name

\* record_analysis adding the cost as it comes.
record_analysis_signed(self, cost_cents, utcnow) ==
    [self EXCEPT !.total_analyses = self.total_analyses + 1,
                 !.total_cost_cents = self.total_cost_cents + cost_cents,
                 !.last_active_at = utcnow]

\* User.record_analysis(cost_cents): self after the call.
record_analysis(self, cost_cents, utcnow) ==
    [self EXCEPT !.total_analyses = self.total_analyses + 1,
                 !.total_cost_cents = self.total_cost_cents + Max(0, cost_cents),
                 !.last_active_at = utcnow]

\* The ApiKeys handed in; service_name is stored in lowercase.
ApiKeys ==
    [encrypted_value : {<<"Q", "Q", "=", "=">>, <<"Q", "g", "=", "=">>},
     service_name    : {"groq_llm", "custom"},
     is_default      : {FALSE}]

\* The service names asked for; "Custom" is no service_name of a stored key.
ServiceNames == {"groq_llm", "custom", "openrouter", "Custom"}

\* Most calls of record_analysis on one user.
MaxRecorded == 3

\* Largest cost of one analysis.
MaxAnalysisCost == 2

\* A call on the user: ret keeps the call, what it returned, the user before
\* it and how many calls of record_analysis were made so far.
UserCall(op, arg, value, after, recorded) ==
    /\ user' = [user EXCEPT !.result = after]
    /\ ret' = [called |-> TRUE, op |-> op, arg |-> arg, value |-> value,
               before |-> user.result, recorded |-> recorded]
    /\ UNCHANGED <<clsArgs, clsObj, resArgs, resObj, now, seen, perf>>
    /\ UNCHANGED textVars
    /\ UNCHANGED confVars
    /\ UNCHANGED procVars

AddApiKey ==
    /\ user.called
    /\ user.result.ok
    /\ \E api_key \in ApiKeys :
          UserCall("add_api_key", api_key, None, add_api_key(user.result, api_key),
                   ret.recorded)

RemoveApiKey ==
    /\ user.called
    /\ user.result.ok
    /\ \E service_name \in ServiceNames :
          UserCall("remove_api_key", service_name,
                   Some(remove_api_key(user.result, service_name).value),
                   remove_api_key(user.result, service_name).self, ret.recorded)

RecordAnalysis ==
    /\ user.called
    /\ user.result.ok
    /\ ret.recorded < MaxRecorded
    /\ \E cost_cents \in {0 - MaxAnalysisCost, 0, 1, MaxAnalysisCost} :
          UserCall("record_analysis", cost_cents, None,
                   record_analysis(user.result, cost_cents, now), ret.recorded + 1)

---------------------------------------------------------------------------
(* Specification of a User under add_api_key, remove_api_key and            *)
(* record_analysis.                                                         *)

\* Largest total_analyses and total_cost_cents a User is constructed with.
MaxInitialTotal == 1

InitUser ==
    /\ \E api_keys \in SeqsOf(ApiKeys, 0, 2) :
       \E total_analyses \in {0 - 1, 0, MaxInitialTotal} :
       \E total_cost_cents \in {0, MaxInitialTotal} :
          user = [called |-> TRUE,
                  result |-> UserNew(api_keys, total_analyses, total_cost_cents, 0),
                  built  |-> UserNew(api_keys, total_analyses, total_cost_cents, 0)]
    /\ ret = [called |-> FALSE, recorded |-> 0]
    /\ now = 0
    /\ seen = NotCalled
    /\ perf = NotCalled
    /\ clsArgs = None
    /\ clsObj = NotCalled
    /\ resArgs = None
    /\ resObj = NotCalled
    /\ TextIdle
    /\ ConfIdle
    /\ ProcIdle

NextUser ==
    \/ AddApiKey
    \/ RemoveApiKey
    \/ RecordAnalysis

SpecUser == InitUser /\ [][NextUser]_vars

\* The key a user holds for a service, the set of them.
KeysOf(self, service_name) ==
    {self.api_keys[i] : i \in {j \in 1..Len(self.api_keys) :
                                  self.api_keys[j].service_name = service_name}}

AllServiceNames == {"google_fact_check", "groq_llm", "openrouter", "custom", "Custom"}

\* C29: after any sequence of add_api_key and remove_api_key calls on a
\* constructed User, api_keys holds at most one key per service_name;
\* directly after add_api_key(k), get_api_key(k.service_name) returns k and
\* the keys of the other services are as before; directly after
\* remove_api_key(s), has_api_key(s) is false, the keys of the other
\* services are as before, and the call returned true exactly when a key for
\* s was held before.
C29_OneKeyPerService ==
    user.called /\ user.result.ok =>
        /\ \A i, j \in 1..Len(user.result.api_keys) :
              user.result.api_keys[i].service_name = user.result.api_keys[j].service_name
                  => i = j
        /\ ret.called /\ ret.op = "add_api_key" =>
              /\ get_api_key(user.result, ret.arg.service_name) = Some(ret.arg)
              /\ \A s \in AllServiceNames \ {ret.arg.service_name} :
                    KeysOf(user.result, s) = KeysOf(ret.before, s)
        /\ ret.called /\ ret.op = "remove_api_key" =>
              /\ ~has_api_key(user.result, ret.arg)
              /\ \A s \in AllServiceNames \ {ret.arg} :
                    KeysOf(user.result, s) = KeysOf(ret.before, s)
              /\ ret.value = Some(KeysOf(ret.before, ret.arg) # {})

\* A key of a service replaced the key held for it, next to the key of
\* another service.
C29_Witness ==
    /\ user.called
    /\ user.result.ok
    /\ ret.called
    /\ ret.op = "add_api_key"
    /\ Len(ret.before.api_keys) = 2
    /\ Len(user.result.api_keys) = 2
    /\ KeysOf(ret.before, ret.arg.service_name) # {ret.arg}
    /\ user.result.api_keys[2] = ret.arg

\* C30 as stated: record_analysis(cost_cents) adds 1 to total_analyses and
\* max(0, cost_cents) to total_cost_cents and leaves api_keys and the
\* preferences alone; the two totals never decrease and stay >= 0; and
\* total_analyses is the number of calls made since the User was created.
C30_TotalsAsStated ==
    user.called /\ user.result.ok =>
        /\ ret.called /\ ret.op = "record_analysis" =>
              /\ user.result.total_analyses = ret.before.total_analyses + 1
              /\ user.result.total_cost_cents
                     = ret.before.total_cost_cents + (IF ret.arg > 0 THEN ret.arg ELSE 0)
              /\ user.result.api_keys = ret.before.api_keys
              /\ user.result.preferences = ret.before.preferences
        /\ user.result.total_analyses >= 0
        /\ user.result.total_cost_cents >= 0
        /\ user.result.total_analyses = ret.recorded

\* C30, amended: as stated, but total_analyses is its value at construction
\* plus the number of calls of record_analysis, and both totals are at least
\* their values at construction.
C30_Totals ==
    user.called /\ user.result.ok =>
        /\ ret.called /\ ret.op = "record_analysis" =>
              /\ user.result.total_analyses = ret.before.total_analyses + 1
              /\ user.result.total_cost_cents
                     = ret.before.total_cost_cents + (IF ret.arg > 0 THEN ret.arg ELSE 0)
              /\ user.result.api_keys = ret.before.api_keys
              /\ user.result.preferences = ret.before.preferences
        /\ ret.called =>
              /\ user.result.total_analyses >= ret.before.total_analyses
              /\ user.result.total_cost_cents >= ret.before.total_cost_cents
        /\ user.result.total_analyses >= 0
        /\ user.result.total_cost_cents >= 0
        /\ user.result.total_analyses = user.built.total_analyses + ret.recorded
        /\ user.result.total_cost_cents >= user.built.total_cost_cents

\* Three analyses were recorded, the last at a negative cost, on a user
\* constructed with one analysis.
C30_Witness ==
    /\ user.called
    /\ user.result.ok
    /\ ret.called
    /\ ret.op = "record_analysis"
    /\ ret.arg < 0
    /\ ret.recorded = 3
    /\ user.built.total_analyses = 1
    /\ user.result.total_analyses = 4
    /\ user.result.total_cost_cents = ret.before.total_cost_cents

---------------------------------------------------------------------------
(* Specification of the confidence path: construct, then classify.          *)

InitConfidence ==
    /\ raw \in RawValues
    /\ score = NoScore
    /\ ctype = "NONE"
    /\ ProcIdle
    /\ EntityIdle

NextConfidence ==
    \/ ConfidenceScoreNew
    \/ FromConfidence

SpecConfidence == InitConfidence /\ [][NextConfidence]_vars

---------------------------------------------------------------------------
(* Claims on the confidence path.                                           *)

Classified == score.state = "ok" /\ ctype # "NONE"

\* C1 (as stated): built from the raw value v and classified, 0.8 gives
\* RELIABLE, 0.79999 INCONCLUSIVE, 0.4 INCONCLUSIVE, 0.39999 UNFOUNDED,
\* 0.2 UNFOUNDED and 0.19999 FAKE.
C1_BoundaryTableAsStated ==
    Classified =>
        /\ (raw = Frac(8, 10) => ctype = "RELIABLE")
        /\ (raw = Frac(79999, 100000) => ctype = "INCONCLUSIVE")
        /\ (raw = Frac(4, 10) => ctype = "INCONCLUSIVE")
        /\ (raw = Frac(39999, 100000) => ctype = "UNFOUNDED")
        /\ (raw = Frac(2, 10) => ctype = "UNFOUNDED")
        /\ (raw = Frac(19999, 100000) => ctype = "FAKE")

\* C1 (amended): the construction rounds to 4 decimals first, so 0.79999 is
\* stored as 0.8 and gives RELIABLE, 0.39999 is stored as 0.4 and gives
\* INCONCLUSIVE, 0.19999 is stored as 0.2 and gives UNFOUNDED; 0.8, 0.4 and
\* 0.2 give RELIABLE, INCONCLUSIVE and UNFOUNDED.
C1_BoundaryTableRounded ==
    Classified =>
        /\ (raw = Frac(8, 10) => ctype = "RELIABLE")
        /\ (raw = Frac(79999, 100000) => score.value = Frac(8, 10) /\ ctype = "RELIABLE")
        /\ (raw = Frac(4, 10) => ctype = "INCONCLUSIVE")
        /\ (raw = Frac(39999, 100000) => score.value = Frac(4, 10) /\ ctype = "INCONCLUSIVE")
        /\ (raw = Frac(2, 10) => ctype = "UNFOUNDED")
        /\ (raw = Frac(19999, 100000) => score.value = Frac(2, 10) /\ ctype = "UNFOUNDED")

C1_Witness ==
    /\ raw = Frac(79999, 100000)
    /\ score.state = "ok"
    /\ ctype = "RELIABLE"

Rank(t) ==
    CASE t = "FAKE" -> 0
      [] t = "UNFOUNDED" -> 1
      [] t = "INCONCLUSIVE" -> 2
      [] t = "RELIABLE" -> 3

\* C2: every ConfidenceScore maps to exactly one type, RELIABLE iff
\* value >= 0.8, INCONCLUSIVE iff 0.4 <= value < 0.8, UNFOUNDED iff
\* 0.2 <= value < 0.4, FAKE iff value < 0.2; and the mapping is monotone:
\* the type of the next smaller stored value is never a higher type.
C2_BandsExactAndMonotone ==
    Classified =>
        LET v    == score.value
            step == RAW_SCALE \div ROUND_SCALE
        IN  /\ ctype \in ClassificationTypes
            /\ (ctype = "RELIABLE" <=> v >= Frac(8, 10))
            /\ (ctype = "INCONCLUSIVE" <=> (Frac(4, 10) <= v /\ v < Frac(8, 10)))
            /\ (ctype = "UNFOUNDED" <=> (Frac(2, 10) <= v /\ v < Frac(4, 10)))
            /\ (ctype = "FAKE" <=> v < Frac(2, 10))
            /\ (v >= step => Rank(from_confidence(v - step)) <= Rank(ctype))

C2_Witness ==
    /\ score.state = "ok"
    /\ score.value = Frac(4, 10)
    /\ ctype = "INCONCLUSIVE"
    /\ from_confidence(score.value - RAW_SCALE \div ROUND_SCALE) = "UNFOUNDED"

\* C3: constructing a ConfidenceScore from v fails when v < 0 or v > 1 and
\* produces no object; otherwise it succeeds and stores v rounded to 4
\* decimals: a multiple of 0.0001 inside [0,1], at most half of 0.0001
\* away from v.
C3_RangeAndRounding ==
    score.state # "none" =>
        LET step == RAW_SCALE \div ROUND_SCALE
        IN  /\ (raw < Frac(0, 1) \/ raw > Frac(1, 1)) => score = FailedScore
            /\ (Frac(0, 1) <= raw /\ raw <= Frac(1, 1)) =>
                  /\ score.state = "ok"
                  /\ score.value % step = 0
                  /\ 2 * Abs(score.value - raw) <= step
                  /\ Frac(0, 1) <= score.value
                  /\ score.value <= Frac(1, 1)

C3_Witness ==
    /\ score.state = "ok"
    /\ raw = Frac(1, 1) - 1
    /\ score.value = Frac(1, 1)

=============================================================================
